---- MODULE Spec2Model ----
(***************************************************************************)
(* Model of the shopping-list server: the domain model (src/src/models.py),*)
(* the persistence gateway (src/src/database.py), the application services *)
(* (src/src/services) and the tool entry surface                           *)
(* (src/src/tools/shopping_tools.py).                                      *)
(*                                                                         *)
(* Text is a sequence of one-character strings, so that strip() and        *)
(* lower() are computed.  A timestamp is a tick of a strictly increasing   *)
(* clock.  An Optional value is <<>> (None) or <<v>>.  A tool call is      *)
(* executed by a worker in steps; a step holds at most one store           *)
(* operation, so that calls interleave exactly at the store.               *)
(***************************************************************************)
EXTENDS Integers, Sequences, FiniteSets, TLC

VARIABLES
    users,        \* the users collection: sequence of user documents
    lists,        \* the shopping_lists collection: sequence of list documents
    uniqueIndex,  \* whether the store holds a unique index on users.claude_user_id
    connected,    \* Database._connected
    client,       \* whether Database._client holds a MongoClient
    clock,        \* the next value datetime.utcnow() returns
    nextId,       \* the next value uuid.uuid4() returns
    faults,       \* store / connection failures injected so far
    started,      \* tool calls started so far
    proc          \* per worker: the tool call it executes (or executed last)

vars == <<users, lists, uniqueIndex, connected, client, clock, nextId, faults, started, proc>>

----------------------------------------------------------------------------
(* Bounds *)

MaxCalls == 2
MaxFaults == 1
MaxGatewayCalls == 3
MaxLegacyCalls == 3

(* Program constants *)

MaxNameLen == 200
MaxNotesLen == 500
MaxListNameLen == 100

----------------------------------------------------------------------------
(* Text *)

None == <<>>
Some(v) == <<v>>

UpperChars == <<"A","B","C","D","E","F","G","H","I","J","K","L","M",
                "N","O","P","Q","R","S","T","U","V","W","X","Y","Z">>
LowerChars == <<"a","b","c","d","e","f","g","h","i","j","k","l","m",
                "n","o","p","q","r","s","t","u","v","w","x","y","z">>

LowerChar(c) ==
    IF \E i \in 1..26 : UpperChars[i] = c
    THEN LowerChars[CHOOSE i \in 1..26 : UpperChars[i] = c]
    ELSE c

\* str.lower()
Lower(s) == [i \in 1..Len(s) |-> LowerChar(s[i])]

IsSpace(c) == c \in {" ", "\t", "\n"}

RECURSIVE LStrip(_)
LStrip(s) == IF s # <<>> /\ IsSpace(Head(s)) THEN LStrip(Tail(s)) ELSE s

RECURSIVE RStrip(_)
RStrip(s) ==
    IF s # <<>> /\ IsSpace(s[Len(s)]) THEN RStrip(SubSeq(s, 1, Len(s) - 1)) ELSE s

\* str.strip()
Strip(s) == RStrip(LStrip(s))

Digits == <<"0","1","2","3","4","5","6","7","8","9">>

RECURSIVE NatStr(_)
NatStr(n) == IF n < 10 THEN <<Digits[n + 1]>> ELSE NatStr(n \div 10) \o <<Digits[(n % 10) + 1]>>

\* str(number), as an f-string renders it
NumStr(n) == IF n < 0 THEN <<"-">> \o NatStr(-n) ELSE NatStr(n)

\* a Python float: a number, or nan; every ordered comparison with nan is False
Float(n) == [nan |-> FALSE, v |-> n]
NaN == [nan |-> TRUE, v |-> 0]
FloatLt(a, b) == ~a.nan /\ ~b.nan /\ a.v < b.v
FloatGe(a, b) == ~a.nan /\ ~b.nan /\ a.v >= b.v

----------------------------------------------------------------------------
(* Domain model: ShoppingItem *)

\* a validate that checks the length of the name before the quantity
ItemValidateLengthFirst(item) ==
    IF item.name = <<>> \/ Strip(item.name) = <<>>
    THEN Some([message |-> "Item name cannot be empty", field |-> "name"])
    ELSE IF Len(item.name) > MaxNameLen
    THEN Some([message |-> "Item name is too long (max 200 characters)", field |-> "name"])
    ELSE IF FloatLt(item.quantity, Float(0))
    THEN Some([message |-> "Item quantity cannot be negative", field |-> "quantity"])
    ELSE IF Len(item.notes) > MaxNotesLen
    THEN Some([message |-> "Item notes are too long (max 500 characters)", field |-> "notes"])
    ELSE None

\* ShoppingItem.validate: the ValidationError it raises, as [message, field], or None
ItemValidate(item) ==
    IF item.name = <<>> \/ Strip(item.name) = <<>>
    THEN Some([message |-> "Item name cannot be empty", field |-> "name"])
    ELSE IF FloatLt(item.quantity, Float(0))
    THEN Some([message |-> "Item quantity cannot be negative", field |-> "quantity"])
    ELSE IF Len(item.name) > MaxNameLen
    THEN Some([message |-> "Item name is too long (max 200 characters)", field |-> "name"])
    ELSE IF Len(item.notes) > MaxNotesLen
    THEN Some([message |-> "Item notes are too long (max 500 characters)", field |-> "notes"])
    ELSE None

\* ShoppingItem(...) with the dataclass defaults: checked False, a fresh item_id,
\* added_at = utcnow(), checked_at None
NewItem(name, quantity, unit, category, notes, id, now) ==
    [item_id |-> id, name |-> name, quantity |-> quantity, unit |-> unit,
     category |-> category, notes |-> notes, checked |-> FALSE,
     added_at |-> now, checked_at |-> None]

\* datetime.isoformat / datetime.fromisoformat
IsoFormat(t) == [iso |-> t]
FromIsoFormat(s) == s.iso

\* ShoppingItem.to_dict
ItemToDict(item) ==
    [item_id |-> item.item_id, name |-> item.name, quantity |-> item.quantity,
     unit |-> item.unit, category |-> item.category, notes |-> item.notes,
     checked |-> item.checked,
     added_at |-> IsoFormat(item.added_at),
     checked_at |-> IF item.checked_at # None
                    THEN Some(IsoFormat(item.checked_at[1])) ELSE None]

\* ShoppingItem.from_dict
ItemFromDict(data) ==
    [item_id |-> data.item_id, name |-> data.name, quantity |-> data.quantity,
     unit |-> data.unit, category |-> data.category, notes |-> data.notes,
     checked |-> data.checked,
     added_at |-> FromIsoFormat(data.added_at),
     checked_at |-> IF data.checked_at # None
                    THEN Some(FromIsoFormat(data.checked_at[1])) ELSE None]

\* a mark_checked that sets no checked_at
MarkCheckedNoTime(item, now) == [item EXCEPT !.checked = TRUE]

\* ShoppingItem.mark_checked
MarkChecked(item, now) == [item EXCEPT !.checked = TRUE, !.checked_at = Some(now)]

\* a mark_unchecked that keeps the checked_at timestamp
MarkUncheckedKeepsTime(item) == [item EXCEPT !.checked = FALSE]

\* ShoppingItem.mark_unchecked
MarkUnchecked(item) == [item EXCEPT !.checked = FALSE, !.checked_at = None]

----------------------------------------------------------------------------
(* Domain model: ShoppingList *)

DefaultListName == "My Shopping List"

\* ShoppingList(user_id=...) with the dataclass defaults; created_at and
\* updated_at are two successive utcnow() calls
NewList(user_id, now) ==
    [user_id |-> user_id, list_name |-> DefaultListName, items |-> <<>>,
     created_at |-> now, updated_at |-> now + 1]

\* an add_item that inserts at the head of the list
ListAddItemFront(list, item, now) ==
    [list EXCEPT !.items = <<item>> \o list.items, !.updated_at = now]

\* an add_item that replaces the items of the same name
ListAddItemDedup(list, item, now) ==
    LET Other(it) == Lower(it.name) # Lower(item.name)
    IN  [list EXCEPT !.items = Append(SelectSeq(list.items, Other), item), !.updated_at = now]

\* ShoppingList.add_item
ListAddItem(list, item, now) ==
    [list EXCEPT !.items = Append(list.items, item), !.updated_at = now]

NameDiffers(item, item_name) == Lower(item.name) # Lower(item_name)

\* a remove_item that removes the first match only
ListRemoveFirst(list, item_name, now) ==
    LET Named(k) == Lower(list.items[k].name) = Lower(item_name)
        i == IF \E k \in 1..Len(list.items) : Named(k)
             THEN CHOOSE k \in 1..Len(list.items) : Named(k) /\ \A j \in 1..(k - 1) : ~Named(j)
             ELSE 0
    IN  IF i = 0 THEN list
        ELSE [list EXCEPT !.items = SubSeq(list.items, 1, i - 1)
                                        \o SubSeq(list.items, i + 1, Len(list.items)),
                          !.updated_at = now]

\* ShoppingList.remove_item: the list afterwards
ListRemoveItem(list, item_name, now) ==
    LET NotNamed(it) == NameDiffers(it, item_name)
        kept == SelectSeq(list.items, NotNamed)
        removed == Len(kept) < Len(list.items)
    IN  [list EXCEPT !.items = kept,
                     !.updated_at = IF removed THEN now ELSE list.updated_at]

\* ShoppingList.remove_item: its return value
ListRemoved(list, item_name) ==
    LET NotNamed(it) == NameDiffers(it, item_name)
    IN  Len(SelectSeq(list.items, NotNamed)) < Len(list.items)

\* a find_item that returns the last match
FindItemLast(list, item_name) ==
    IF \E i \in 1..Len(list.items) : Lower(list.items[i].name) = Lower(item_name)
    THEN CHOOSE i \in 1..Len(list.items) :
            /\ Lower(list.items[i].name) = Lower(item_name)
            /\ \A j \in (i + 1)..Len(list.items) : Lower(list.items[j].name) # Lower(item_name)
    ELSE 0

\* ShoppingList.find_item: the index of the first match, or 0
FindItem(list, item_name) ==
    IF \E i \in 1..Len(list.items) : Lower(list.items[i].name) = Lower(item_name)
    THEN CHOOSE i \in 1..Len(list.items) :
            /\ Lower(list.items[i].name) = Lower(item_name)
            /\ \A j \in 1..(i - 1) : Lower(list.items[j].name) # Lower(item_name)
    ELSE 0

IsChecked(item) == item.checked
IsUnchecked(item) == ~item.checked

\* a get_unchecked_items that returns every item
GetUncheckedItemsAll(list) == list.items

\* ShoppingList.get_unchecked_items
GetUncheckedItems(list) == SelectSeq(list.items, IsUnchecked)

\* ShoppingList.get_checked_items
GetCheckedItems(list) == SelectSeq(list.items, IsChecked)

\* a clear_checked_items that keeps the checked items
ListClearUnchecked(list, now) ==
    [list EXCEPT !.items = GetCheckedItems(list),
                 !.updated_at = IF Len(GetCheckedItems(list)) > 0
                                THEN now ELSE list.updated_at]

\* ShoppingList.clear_checked_items: the list afterwards; the count returned is
\* Len(GetCheckedItems(list))
ListClearChecked(list, now) ==
    [list EXCEPT !.items = GetUncheckedItems(list),
                 !.updated_at = IF Len(GetCheckedItems(list)) > 0
                                THEN now ELSE list.updated_at]

\* a clear_all_items that refreshes updated_at also when the list was empty
ListClearAllTouches(list, now) == [list EXCEPT !.items = <<>>, !.updated_at = now]

\* ShoppingList.clear_all_items: the list afterwards; the count returned is
\* Len(list.items)
ListClearAll(list, now) ==
    [list EXCEPT !.items = <<>>,
                 !.updated_at = IF Len(list.items) > 0 THEN now ELSE list.updated_at]

\* ShoppingList.to_dict: items serialized, the two list timestamps kept native
ListToDict(list) ==
    [user_id |-> list.user_id, list_name |-> list.list_name,
     items |-> [i \in 1..Len(list.items) |-> ItemToDict(list.items[i])],
     created_at |-> list.created_at, updated_at |-> list.updated_at]

\* ShoppingList.from_dict
ListFromDict(data) ==
    [user_id |-> data.user_id, list_name |-> data.list_name,
     items |-> [i \in 1..Len(data.items) |-> ItemFromDict(data.items[i])],
     created_at |-> data.created_at, updated_at |-> data.updated_at]

\* User(claude_user_id=...).to_dict: the default name is "User " + id[:8]
NewUserDoc(claude_user_id, now) ==
    [claude_user_id |-> claude_user_id,
     name |-> <<"User ", claude_user_id>>, email |-> "",
     created_at |-> now, updated_at |-> now + 1]

----------------------------------------------------------------------------
(* Exceptions (src/src/exceptions.py) and the strings the tools return *)

Exc(type, message, field) == [type |-> type, message |-> message, field |-> field]

NoExc == Exc("", "", "")

\* DatabaseConnectionError is a subclass of DatabaseError
IsDatabaseError(e) == e.type \in {"DatabaseError", "DatabaseConnectionError"}

\* a returned string: literal pieces, "{}" standing for the next argument
Msg(text, args) == [text |-> text, args |-> args, to_buy |-> <<>>, purchased |-> <<>>]

\* the words each tool puts in its two failure strings
Verb(op) ==
    CASE op = "add_item" -> "add item"
      [] op = "remove_item" -> "remove item"
      [] op = "update_item" -> "update item"
      [] op = "check_item" -> "check item"
      [] op = "uncheck_item" -> "uncheck item"
      [] op = "get_shopping_list" -> "retrieve shopping list"
      [] op \in {"clear_checked_items", "clear_all_items"} -> "clear items"

DatabaseErrorMsg(op) == Msg(<<"Database error: Unable to ", Verb(op), ". Please try again.">>, <<>>)
UnexpectedErrorMsg(op) == Msg(<<"Error: Unable to ", Verb(op), ". Please try again.">>, <<>>)
ValidationMsg(e) == Msg(<<"Error: ", e.message>>, <<>>)
CouldNotFindMsg(item_name) == Msg(<<"Could not find '", "{}", "' in your shopping list.">>, <<item_name>>)
NoListMsg == Msg(<<"No shopping list found.">>, <<>>)
EmptyListMsg == Msg(<<"Your shopping list is empty.">>, <<>>)

\* f"{quantity}" of a float
FloatStr(q) == IF q.nan THEN <<"n", "a", "n">> ELSE NumStr(q.v) \o <<".", "0">>

\* f"{quantity} {unit}".strip()
QtyUnit(quantity, unit) == Strip(FloatStr(quantity) \o <<" ">> \o unit)

\* the except clauses of each tool, in their order
ToolError(op, item_name, e) ==
    CASE op = "add_item" ->
            IF e.type = "ValidationError" THEN ValidationMsg(e)
            ELSE IF IsDatabaseError(e) THEN DatabaseErrorMsg(op)
            ELSE UnexpectedErrorMsg(op)
      [] op \in {"remove_item", "check_item", "uncheck_item"} ->
            IF e.type = "ItemNotFoundError" THEN CouldNotFindMsg(item_name)
            ELSE IF IsDatabaseError(e) THEN DatabaseErrorMsg(op)
            ELSE UnexpectedErrorMsg(op)
      [] op = "update_item" ->
            IF e.type = "ItemNotFoundError" THEN CouldNotFindMsg(item_name)
            ELSE IF e.type = "ValidationError" THEN ValidationMsg(e)
            ELSE IF IsDatabaseError(e) THEN DatabaseErrorMsg(op)
            ELSE UnexpectedErrorMsg(op)
      [] op = "get_shopping_list" ->
            IF IsDatabaseError(e) THEN DatabaseErrorMsg(op)
            ELSE UnexpectedErrorMsg(op)
      [] op \in {"clear_checked_items", "clear_all_items"} ->
            IF e.type = "ItemNotFoundError" THEN NoListMsg
            ELSE IF IsDatabaseError(e) THEN DatabaseErrorMsg(op)
            ELSE UnexpectedErrorMsg(op)

\* the string each tool returns when its service call returned
ToolSuccess(op, item_name, quantity, unit, count) ==
    CASE op = "add_item" ->
            Msg(<<"Added '", "{}", "' (", "{}", ") to your shopping list.">>,
                <<item_name, QtyUnit(quantity, unit)>>)
      [] op = "remove_item" -> Msg(<<"Removed '", "{}", "' from your shopping list.">>, <<item_name>>)
      [] op = "update_item" -> Msg(<<"Updated '", "{}", "' in your shopping list.">>, <<item_name>>)
      [] op = "check_item" -> Msg(<<"Marked '", "{}", "' as purchased.">>, <<item_name>>)
      [] op = "uncheck_item" -> Msg(<<"Unmarked '", "{}", "'.">>, <<item_name>>)
      [] op = "clear_checked_items" ->
            Msg(<<"Removed ", "{}", " purchased item(s) from your shopping list.">>, <<NumStr(count)>>)
      [] op = "clear_all_items" -> Msg(<<"Cleared all items from your shopping list.">>, <<>>)

\* one line of the report
ToBuyLine(item) ==
    [name |-> item.name, qty_unit |-> QtyUnit(item.quantity, item.unit),
     category |-> item.category, notes |-> item.notes]
PurchasedLine(item) ==
    [name |-> item.name, qty_unit |-> QtyUnit(item.quantity, item.unit)]

\* ShoppingListService.format_shopping_list
FormatShoppingList(list) ==
    IF list.items = <<>> THEN EmptyListMsg
    ELSE LET unchecked == GetUncheckedItems(list)
             checked == GetCheckedItems(list)
         IN  [text |-> <<"**", list.list_name, "**\n\n", "\n**Total items:** ", "{}",
                         " to buy, ", "{}", " purchased">>,
              args |-> <<NumStr(Len(unchecked)), NumStr(Len(checked))>>,
              to_buy |-> [i \in 1..Len(unchecked) |-> ToBuyLine(unchecked[i])],
              purchased |-> [i \in 1..Len(checked) |-> PurchasedLine(checked[i])]]

----------------------------------------------------------------------------
(* The document store, as the gateway uses it *)

\* find_one({"claude_user_id": id}): the position of the first match, or 0
FindUser(us, id) ==
    IF \E i \in 1..Len(us) : us[i].claude_user_id = id
    THEN CHOOSE i \in 1..Len(us) :
            /\ us[i].claude_user_id = id
            /\ \A j \in 1..(i - 1) : us[j].claude_user_id # id
    ELSE 0

\* a find_one that filters on list_name instead of user_id
FindListByName(ls, id) ==
    IF \E i \in 1..Len(ls) : ls[i].list_name = id
    THEN CHOOSE i \in 1..Len(ls) :
            /\ ls[i].list_name = id
            /\ \A j \in 1..(i - 1) : ls[j].list_name # id
    ELSE 0

\* find_one({"user_id": id}): the position of the first match, or 0
FindList(ls, id) ==
    IF \E i \in 1..Len(ls) : ls[i].user_id = id
    THEN CHOOSE i \in 1..Len(ls) :
            /\ ls[i].user_id = id
            /\ \A j \in 1..(i - 1) : ls[j].user_id # id
    ELSE 0

\* an update that keeps the stored items the written document does not have
UpdateOneUpsertMerge(ls, list_doc) ==
    LET i == IF \E k \in 1..Len(ls) : ls[k].user_id = list_doc.user_id
             THEN CHOOSE k \in 1..Len(ls) : ls[k].user_id = list_doc.user_id /\ \A j \in 1..(k - 1) : ls[j].user_id # list_doc.user_id
             ELSE 0
        Kept(d) == \A k \in 1..Len(list_doc.items) : list_doc.items[k].item_id # d.item_id
    IN  IF i = 0 THEN Append(ls, list_doc)
        ELSE [ls EXCEPT ![i] = [list_doc EXCEPT !.items = SelectSeq(ls[i].items, Kept) \o list_doc.items]]

\* an update whose filter matches every document: the first one is replaced
UpdateOneAny(ls, list_doc) ==
    IF ls = <<>> THEN Append(ls, list_doc) ELSE [ls EXCEPT ![1] = list_doc]

\* an update that inserts the written document and leaves the stored one
UpdateOneInsert(ls, list_doc) == Append(ls, list_doc)

\* update_one({"user_id": id}, {"$set": list_doc}, upsert=True): every field of
\* the first matching document is set; with no match the document is inserted
UpdateOneUpsert(ls, list_doc) ==
    IF FindList(ls, list_doc.user_id) = 0 THEN Append(ls, list_doc)
    ELSE [ls EXCEPT ![FindList(ls, list_doc.user_id)] = list_doc]

\* insert_one on users raises DuplicateKeyError only under a unique index
DuplicateKey(us, id) == uniqueIndex /\ FindUser(us, id) # 0

----------------------------------------------------------------------------
(* Application service: the in-memory part of each use case *)

\* what the in-memory part yields: the exception it raises (or NoExc), the
\* list to persist, the utcnow() calls it made, the count it returns
MutRes(exc, list, ticks, count) == [exc |-> exc, list |-> list, ticks |-> ticks, count |-> count]

ItemNotFound(message) == Exc("ItemNotFoundError", message, "")
ValidationError(v) == Exc("ValidationError", v.message, v.field)

\* ShoppingListService.add_item, lines 42-48: the item built from the arguments
BuildItem(c, id, now) ==
    NewItem(Strip(c.item_name), c.quantity[1], Strip(c.unit[1]),
            Strip(c.category[1]), Strip(c.notes[1]), id, now)

\* an update_item that writes the tool's defaults over the fields not supplied
UpdateFieldsResets(item, c) ==
    [item EXCEPT !.quantity = IF c.quantity # None THEN c.quantity[1] ELSE Float(1),
                 !.unit = IF c.unit # None THEN Strip(c.unit[1]) ELSE <<>>,
                 !.category = IF c.category # None THEN Strip(c.category[1]) ELSE <<>>,
                 !.notes = IF c.notes # None THEN Strip(c.notes[1]) ELSE <<>>]

\* ShoppingListService.update_item, lines 151-167: the fields supplied overwrite
UpdateFields(item, c) ==
    [item EXCEPT !.quantity = IF c.quantity # None THEN c.quantity[1] ELSE @,
                 !.unit = IF c.unit # None THEN Strip(c.unit[1]) ELSE @,
                 !.category = IF c.category # None THEN Strip(c.category[1]) ELSE @,
                 !.notes = IF c.notes # None THEN Strip(c.notes[1]) ELSE @]

\* ShoppingListService.update_item between the load and the save
UpdateMutate(c, l0, now) ==
    LET i == FindItem(l0, Strip(c.item_name))
        item == UpdateFields(l0.items[i], c)
    IN  IF i = 0 THEN MutRes(ItemNotFound("Item not found in shopping list"), l0, 0, 0)
        ELSE IF c.quantity # None /\ FloatLt(c.quantity[1], Float(0))
        THEN MutRes(Exc("ValidationError", "Quantity cannot be negative", "quantity"), l0, 0, 0)
        ELSE IF ItemValidate(item) # None
        THEN MutRes(ValidationError(ItemValidate(item)[1]), l0, 0, 0)
        ELSE MutRes(NoExc, [l0 EXCEPT !.items[i] = item, !.updated_at = now], 1, 0)

\* ShoppingListService.check_item between the load and the save
CheckMutate(c, l0, now) ==
    LET i == FindItem(l0, Strip(c.item_name))
    IN  IF i = 0 THEN MutRes(ItemNotFound("Item not found in shopping list"), l0, 0, 0)
        ELSE MutRes(NoExc, [l0 EXCEPT !.items[i] = MarkChecked(@, now),
                                      !.updated_at = now + 1], 2, 0)

\* ShoppingListService.uncheck_item between the load and the save
UncheckMutate(c, l0, now) ==
    LET i == FindItem(l0, Strip(c.item_name))
    IN  IF i = 0 THEN MutRes(ItemNotFound("Item not found in shopping list"), l0, 0, 0)
        ELSE MutRes(NoExc, [l0 EXCEPT !.items[i] = MarkUnchecked(@),
                                      !.updated_at = now], 1, 0)

\* a remove_item that does not look at what ShoppingList.remove_item returned
RemoveMutateUnchecked(c, l0, now) ==
    MutRes(NoExc, ListRemoveItem(l0, Strip(c.item_name), now), 1, 0)

\* ShoppingListService.remove_item between the load and the save
RemoveMutate(c, l0, now) ==
    IF ~ListRemoved(l0, Strip(c.item_name))
    THEN MutRes(ItemNotFound("Item not found in shopping list"), l0, 0, 0)
    ELSE MutRes(NoExc, ListRemoveItem(l0, Strip(c.item_name), now), 1, 0)

\* ShoppingListService.clear_checked_items between the load and the save
ClearCheckedMutate(c, l0, now) ==
    LET n == Len(GetCheckedItems(l0))
    IN  MutRes(NoExc, ListClearChecked(l0, now), IF n > 0 THEN 1 ELSE 0, n)

\* a clear_all_items that counts the items after it emptied the list
ClearAllMutateCountsAfter(c, l0, now) ==
    LET n == Len(ListClearAll(l0, now).items)
    IN  MutRes(NoExc, ListClearAll(l0, now), IF Len(l0.items) > 0 THEN 1 ELSE 0, n)

\* ShoppingListService.clear_all_items between the load and the save
ClearAllMutate(c, l0, now) ==
    LET n == Len(l0.items)
    IN  MutRes(NoExc, ListClearAll(l0, now), IF n > 0 THEN 1 ELSE 0, n)

\* ShoppingListService.add_item between the load and the save
AddMutate(c, l0, now) == MutRes(NoExc, ListAddItem(l0, c.item[1], now), 1, 0)

\* the in-memory part of use case c.op on the loaded list l0
Mutate(c, l0, now) ==
    CASE c.op = "add_item" -> AddMutate(c, l0, now)
      [] c.op = "remove_item" -> RemoveMutate(c, l0, now)
      [] c.op = "update_item" -> UpdateMutate(c, l0, now)
      [] c.op = "check_item" -> CheckMutate(c, l0, now)
      [] c.op = "uncheck_item" -> UncheckMutate(c, l0, now)
      [] c.op = "clear_checked_items" -> ClearCheckedMutate(c, l0, now)
      [] c.op = "clear_all_items" -> ClearAllMutate(c, l0, now)

\* the except clauses of the service methods: add_item wraps a DatabaseError
\* into ItemOperationError, the other use cases re-raise it
ServiceExc(op, e) ==
    IF op = "add_item" /\ IsDatabaseError(e)
    THEN Exc("ItemOperationError", "Failed to add item", "")
    ELSE e

----------------------------------------------------------------------------
(* Inputs *)

Workers == {"w1", "w2"}
Users == {"u1", "u2"}

Milk == <<"M","i","l","k">>
MILK == <<"M","I","L","K">>
Eggs == <<"E","g","g","s">>
Tea == <<"T","e","a">>
PaddedMilk == <<" ","m","i","l","k"," ">>
Blank == <<" ">>
Kg == <<"k","g">>
PaddedKg == <<" ","k","g">>
Dairy == <<"d","a","i","r","y">>
Fresh == <<"f","r","e","s","h">>

Input(op, item_name, quantity, unit, category, notes) ==
    [op |-> op, item_name |-> item_name, quantity |-> quantity, unit |-> unit,
     category |-> category, notes |-> notes]

\* add_item: the tool's defaults are quantity 1.0 and empty unit, category, notes
AddInputs ==
    { Input("add_item", Tea, Some(Float(1)), Some(<<>>), Some(<<>>), Some(<<>>)),
      Input("add_item", PaddedMilk, Some(Float(2)), Some(PaddedKg), Some(Dairy), Some(Fresh)),
      Input("add_item", Blank, Some(Float(1)), Some(<<>>), Some(<<>>), Some(<<>>)),
      Input("add_item", Eggs, Some(Float(-1)), Some(<<>>), Some(<<>>), Some(<<>>)),
      Input("add_item", Eggs, Some(NaN), Some(<<>>), Some(<<>>), Some(<<>>)) }

TargetNames == {PaddedMilk, Eggs, Tea}

NamedInputs ==
    { Input(op, n, None, None, None, None) :
        op \in {"remove_item", "check_item", "uncheck_item"}, n \in TargetNames }

\* update_item: the fields not supplied are None
UpdateInputs ==
    { Input("update_item", PaddedMilk, Some(Float(3)), None, None, None),
      Input("update_item", PaddedMilk, Some(Float(-1)), Some(Kg), None, None),
      Input("update_item", Eggs, None, Some(PaddedKg), None, Some(Fresh)),
      Input("update_item", Tea, None, None, Some(Dairy), None) }

BareInputs ==
    { Input(op, <<>>, None, None, None, None) :
        op \in {"get_shopping_list", "clear_checked_items", "clear_all_items"} }

Inputs == AddInputs \cup NamedInputs \cup UpdateInputs \cup BareInputs

----------------------------------------------------------------------------
(* State *)

IdleCall ==
    [pc |-> "idle", op |-> "", user_id |-> "", item_name |-> <<>>,
     quantity |-> None, unit |-> None, category |-> None, notes |-> None,
     user |-> None,       \* the user document get_or_create_user returned
     item |-> None,       \* add_item: the ShoppingItem built
     loaded |-> None,     \* the ShoppingList as the gateway returned it
     list |-> None,       \* the ShoppingList to persist
     count |-> 0,         \* the count the service returns
     exc |-> NoExc,       \* the exception that reached the tool
     cause |-> "",        \* the exception the gateway raised
     result |-> None,     \* the string the tool returned
     dup |-> FALSE,       \* create_user: insert_one raised DuplicateKeyError
     before |-> <<>>,     \* history: shopping_lists when the call began
     usersBefore |-> <<>>, \* history: users when the call began
     writes |-> 0,        \* history: writes the call issued to shopping_lists
     updates |-> 0,       \* history: update_one calls among them
     missed |-> {},       \* history: workers whose call wrote this user's list between
                          \* this call's load and its write
     after |-> {},        \* history: the worker whose call had written this user's
                          \* list last when this call loaded it
     latest |-> FALSE,    \* history: this call's write is the last one applied to
                          \* this user's list
     prevCheck |-> None,  \* history: when this worker's previous call was a check_item
                          \* that returned, the item it matched as it was loaded
     prevAdded |-> None]  \* history: when this worker's previous call was an add_item
                          \* that returned, the item it added

\* a store left by earlier calls of user u1: add Milk, add MILK, add Eggs,
\* check milk (which checks the first match)
SeedList ==
    LET l0 == NewList("u1", 2)
        l1 == ListAddItem(l0, NewItem(Milk, Float(1), <<>>, <<>>, <<>>, 1, 4), 5)
        l2 == ListAddItem(l1, NewItem(MILK, Float(2), Kg, <<>>, <<>>, 2, 6), 7)
        l3 == ListAddItem(l2, NewItem(Eggs, Float(1), <<>>, <<>>, <<>>, 3, 8), 9)
    IN  [l3 EXCEPT !.items[1] = MarkChecked(@, 10), !.updated_at = 11]

\* the stores a run starts from: an empty one, and the one those calls left
SeedStores ==
    { [users |-> <<>>, lists |-> <<>>],
      [users |-> <<NewUserDoc("u1", 0)>>, lists |-> <<ListToDict(SeedList)>>] }

\* Database.__init__ leaves the gateway not connected; the store holds what
\* earlier calls left in it.  The program creates no index (connect has the
\* call of _create_indexes commented out), so a store it filled has none; a
\* fresh store may have been given the unique index by its operator.
Init ==
    /\ \E store \in SeedStores :
          /\ users = store.users /\ lists = store.lists
          /\ uniqueIndex \in (IF store.users = <<>> THEN BOOLEAN ELSE {FALSE})
    /\ connected = FALSE /\ client = FALSE
    /\ clock = SeedList.updated_at + 1
    /\ nextId = Len(SeedList.items) + 1
    /\ faults = 0
    /\ started = 0
    /\ proc = [w \in Workers |-> IdleCall]

----------------------------------------------------------------------------
(* Steps of a tool call *)

\* a tool without except clauses: the exception leaves the tool
RaisePropagates(c, e, cause) == [c EXCEPT !.pc = "done", !.exc = e, !.cause = cause]

\* the call ends with exception e reaching the tool, which returns its string
Raise(c, e, cause) ==
    [c EXCEPT !.pc = "done", !.exc = e, !.cause = cause,
              !.result = Some(ToolError(c.op, c.item_name, e))]

\* the call ends with the tool's success string
Return(c, msg) == [c EXCEPT !.pc = "done", !.result = Some(msg)]

\* Database.ensure_connected succeeded (or the gateway was connected), and the
\* store operation that follows raised nothing
Reached ==
    /\ connected' = TRUE
    /\ client' = (IF connected THEN client ELSE TRUE)
    /\ faults' = faults

\* Database.connect raised DatabaseConnectionError: MongoClient(...) raised and
\* _client is as it was, or the ping raised and _client holds the new client
ConnectFails ==
    /\ ~connected /\ faults < MaxFaults /\ faults' = faults + 1
    /\ connected' = FALSE
    /\ client' \in {client, TRUE}

\* the store operation raised PyMongoError
StoreFails ==
    /\ faults < MaxFaults /\ faults' = faults + 1
    /\ connected' = TRUE
    /\ client' = (IF connected THEN client ELSE TRUE)

FailKinds == {"connect", "store"}
Fails(kind) == IF kind = "connect" THEN ConnectFails ELSE StoreFails

\* what a gateway method raises then: connect's DatabaseConnectionError passes
\* its except PyMongoError clause, a PyMongoError becomes DatabaseError
GatewayExc(kind) ==
    IF kind = "connect" THEN Exc("DatabaseConnectionError", "Database connection error", "")
    ELSE Exc("DatabaseError", "Failed", "")
GatewayCause(kind) == IF kind = "connect" THEN "DatabaseConnectionError" ELSE "PyMongoError"

\* history: the item a check_item call that returned had matched, as loaded
Checked(c) ==
    IF c.pc = "done" /\ c.op = "check_item" /\ c.exc = NoExc
    THEN Some([user_id |-> c.user_id,
               item |-> c.loaded[1].items[FindItem(c.loaded[1], Strip(c.item_name))]])
    ELSE None

\* history: the item an add_item call that returned had added
Added(c) ==
    IF c.pc = "done" /\ c.op = "add_item" /\ c.exc = NoExc
    THEN Some([user_id |-> c.user_id, item |-> c.item[1]])
    ELSE None

\* a tool is called: add_item and get_shopping_list resolve the user first
Start(p, u, in) ==
    /\ proc[p].pc \in {"idle", "done"}
    /\ started < MaxCalls
    /\ started' = started + 1
    /\ proc' = [q \in Workers |->
            IF q = p
            THEN [IdleCall EXCEPT
                    !.pc = IF in.op \in {"add_item", "get_shopping_list"} THEN "get_user" ELSE "load",
                    !.op = in.op, !.user_id = u, !.item_name = in.item_name,
                    !.quantity = in.quantity, !.unit = in.unit,
                    !.category = in.category, !.notes = in.notes,
                    !.before = lists, !.usersBefore = users,
                    !.prevCheck = Checked(proc[p]),
                    !.prevAdded = Added(proc[p])]
            ELSE [proc[q] EXCEPT !.missed = @ \ {p}, !.after = @ \ {p}]]
    /\ UNCHANGED <<users, lists, uniqueIndex, connected, client, clock, nextId, faults>>

\* Database.get_user within get_or_create_user
GetUser(p) ==
    LET c == proc[p] IN
    /\ c.pc = "get_user"
    /\ Reached
    /\ proc' = [proc EXCEPT ![p] =
            IF FindUser(users, c.user_id) # 0
            THEN [c EXCEPT !.pc = "load", !.user = Some(users[FindUser(users, c.user_id)])]
            ELSE [c EXCEPT !.pc = "create_user"]]
    /\ UNCHANGED <<users, lists, uniqueIndex, clock, nextId, started>>

\* a tool that goes on to the list after get_or_create_user raised
GetUserFailsIgnored(p, kind) ==
    LET c == proc[p] IN
    /\ c.pc = "get_user"
    /\ Fails(kind)
    /\ proc' = [proc EXCEPT ![p].pc = "load"]
    /\ UNCHANGED <<users, lists, uniqueIndex, clock, nextId, started>>

\* Database.get_user raises within get_or_create_user
GetUserFails(p, kind) ==
    LET c == proc[p] IN
    /\ c.pc = "get_user"
    /\ Fails(kind)
    /\ proc' = [proc EXCEPT ![p] = Raise(c, GatewayExc(kind), GatewayCause(kind))]
    /\ UNCHANGED <<users, lists, uniqueIndex, clock, nextId, started>>

\* a create_user that builds the user and inserts nothing
CreateUserSkips(p) ==
    LET c == proc[p] IN
    /\ c.pc = "create_user"
    /\ Reached
    /\ ~DuplicateKey(users, c.user_id)
    /\ users' = users
    /\ clock' = clock + 2
    /\ proc' = [proc EXCEPT ![p].pc = "load", ![p].user = Some(NewUserDoc(c.user_id, clock))]
    /\ UNCHANGED <<lists, uniqueIndex, nextId, started>>

\* Database.create_user: User(...) is built (two utcnow() calls), then inserted
CreateUser(p) ==
    LET c == proc[p] IN
    /\ c.pc = "create_user"
    /\ Reached
    /\ ~DuplicateKey(users, c.user_id)
    /\ users' = Append(users, NewUserDoc(c.user_id, clock))
    /\ clock' = clock + 2
    /\ proc' = [proc EXCEPT ![p].pc = "load", ![p].user = Some(NewUserDoc(c.user_id, clock))]
    /\ UNCHANGED <<lists, uniqueIndex, nextId, started>>

\* Database.create_user: insert_one raises DuplicateKeyError; the existing
\* user is read back next
CreateUserDuplicate(p) ==
    LET c == proc[p] IN
    /\ c.pc = "create_user"
    /\ Reached
    /\ DuplicateKey(users, c.user_id)
    /\ clock' = clock + 2
    /\ proc' = [proc EXCEPT ![p].pc = "read_back", ![p].dup = TRUE]
    /\ UNCHANGED <<users, lists, uniqueIndex, nextId, started>>


\* Database.create_user: a PyMongoError of insert_one becomes UserCreationError
CreateUserFails(p, kind) ==
    LET c == proc[p] IN
    /\ c.pc = "create_user"
    /\ Fails(kind)
    /\ clock' = clock + 2
    /\ proc' = [proc EXCEPT ![p] =
            Raise(c, IF kind = "connect" THEN GatewayExc(kind)
                     ELSE Exc("UserCreationError", "Failed to create user", ""),
                  GatewayCause(kind))]
    /\ UNCHANGED <<users, lists, uniqueIndex, nextId, started>>

\* a create_user that raises on every duplicate key, without reading back
ReadBackRaises(p) ==
    LET c == proc[p] IN
    /\ c.pc = "read_back"
    /\ Reached
    /\ proc' = [proc EXCEPT ![p] =
            Raise(c, Exc("UserCreationError", "User already exists", ""), "DuplicateKeyError")]
    /\ UNCHANGED <<users, lists, uniqueIndex, clock, nextId, started>>

\* Database.create_user, lines 162-174: get_user after the DuplicateKeyError
ReadBack(p) ==
    LET c == proc[p] IN
    /\ c.pc = "read_back"
    /\ Reached
    /\ proc' = [proc EXCEPT ![p] =
            IF FindUser(users, c.user_id) # 0
            THEN [c EXCEPT !.pc = "load", !.user = Some(users[FindUser(users, c.user_id)])]
            ELSE Raise(c, Exc("UserCreationError", "User already exists", ""), "DuplicateKeyError")]
    /\ UNCHANGED <<users, lists, uniqueIndex, clock, nextId, started>>

ReadBackFails(p, kind) ==
    LET c == proc[p] IN
    /\ c.pc = "read_back"
    /\ Fails(kind)
    /\ proc' = [proc EXCEPT ![p] = Raise(c, GatewayExc(kind), GatewayCause(kind))]
    /\ UNCHANGED <<users, lists, uniqueIndex, clock, nextId, started>>

\* add_item builds its ShoppingItem (one uuid4(), one utcnow()) before it loads
\* the list; the other use cases build nothing
Built(c) == IF c.op = "add_item" THEN 1 ELSE 0
WithItem(c) == IF c.op = "add_item" THEN [c EXCEPT !.item = Some(BuildItem(c, nextId, clock))] ELSE c
ItemAccepted(c) == c.op = "add_item" => ItemValidate(BuildItem(c, nextId, clock)) = None

\* history: the worker whose call wrote user u's list last and has returned
Written(u) == {q \in Workers : proc[q].pc = "done" /\ proc[q].user_id = u /\ proc[q].latest}

\* ShoppingListService.add_item: ShoppingItem(...) raises ValidationError
AddInvalid(p) ==
    LET c == proc[p] IN
    /\ c.pc = "load"
    /\ ~ItemAccepted(c)
    /\ clock' = clock + 1
    /\ nextId' = nextId + 1
    /\ proc' = [proc EXCEPT ![p] =
            Raise(c, ValidationError(ItemValidate(BuildItem(c, nextId, clock))[1]), "ValidationError")]
    /\ UNCHANGED <<users, lists, uniqueIndex, connected, client, faults, started>>

\* Database.get_shopping_list finds no document, within get_or_create_shopping_list
LoadMissing(p) ==
    LET c == proc[p] IN
    /\ c.pc = "load"
    /\ c.op \in {"add_item", "get_shopping_list"}
    /\ ItemAccepted(c)
    /\ Reached
    /\ FindList(lists, c.user_id) = 0
    /\ clock' = clock + Built(c)
    /\ nextId' = nextId + Built(c)
    /\ proc' = [proc EXCEPT ![p] =
            [WithItem(c) EXCEPT !.pc = "create_list", !.after = Written(c.user_id)]]
    /\ UNCHANGED <<users, lists, uniqueIndex, started>>

\* Database.get_shopping_list returns None to a use case that needs a list
LoadNotFound(p) ==
    LET c == proc[p] IN
    /\ c.pc = "load"
    /\ c.op \notin {"add_item", "get_shopping_list"}
    /\ Reached
    /\ FindList(lists, c.user_id) = 0
    /\ proc' = [proc EXCEPT ![p] =
            Raise(c, ItemNotFound("Shopping list not found"), "ItemNotFoundError")]
    /\ UNCHANGED <<users, lists, uniqueIndex, clock, nextId, started>>

\* a get_shopping_list that saves the list it loaded
LoadGetSaves(p) ==
    LET c == proc[p]
        i == FindList(lists, c.user_id)
        l0 == ListFromDict(lists[i])
    IN
    /\ c.pc = "load"
    /\ c.op = "get_shopping_list"
    /\ Reached
    /\ i # 0
    /\ lists' = UpdateOneUpsert(lists, ListToDict(l0))
    /\ proc' = [proc EXCEPT ![p] =
            Return([c EXCEPT !.loaded = Some(l0), !.after = Written(c.user_id),
                             !.writes = @ + 1, !.updates = @ + 1],
                   FormatShoppingList(l0))]
    /\ UNCHANGED <<users, uniqueIndex, clock, nextId, started>>

\* ShoppingListService.get_shopping_list on a stored list, then the tool formats it
LoadGet(p) ==
    LET c == proc[p]
        i == FindList(lists, c.user_id)
        l0 == ListFromDict(lists[i])
    IN
    /\ c.pc = "load"
    /\ c.op = "get_shopping_list"
    /\ Reached
    /\ i # 0
    /\ proc' = [proc EXCEPT ![p] =
            Return([c EXCEPT !.loaded = Some(l0), !.after = Written(c.user_id)],
                   FormatShoppingList(l0))]
    /\ UNCHANGED <<users, lists, uniqueIndex, clock, nextId, started>>

\* a mutating use case loads the stored list and changes it in memory
LoadMutate(p) ==
    LET c == proc[p]
        i == FindList(lists, c.user_id)
        l0 == ListFromDict(lists[i])
        m == Mutate(WithItem(c), l0, clock + Built(c))
    IN
    /\ c.pc = "load"
    /\ c.op # "get_shopping_list"
    /\ ItemAccepted(c)
    /\ Reached
    /\ i # 0
    /\ m.exc = NoExc
    /\ clock' = clock + Built(c) + m.ticks
    /\ nextId' = nextId + Built(c)
    /\ proc' = [proc EXCEPT ![p] =
            [WithItem(c) EXCEPT !.pc = "write", !.loaded = Some(l0), !.list = Some(m.list),
                                !.count = m.count, !.after = Written(c.user_id)]]
    /\ UNCHANGED <<users, lists, uniqueIndex, started>>

\* a mutating use case loads the stored list and raises ItemNotFoundError or
\* ValidationError before anything is persisted
LoadReject(p) ==
    LET c == proc[p]
        i == FindList(lists, c.user_id)
        l0 == ListFromDict(lists[i])
        m == Mutate(WithItem(c), l0, clock + Built(c))
    IN
    /\ c.pc = "load"
    /\ c.op # "get_shopping_list"
    /\ ItemAccepted(c)
    /\ Reached
    /\ i # 0
    /\ m.exc # NoExc
    /\ proc' = [proc EXCEPT ![p] =
            Raise([c EXCEPT !.loaded = Some(l0)], ServiceExc(c.op, m.exc), m.exc.type)]
    /\ UNCHANGED <<users, lists, uniqueIndex, clock, nextId, started>>

\* Database.get_shopping_list raises
LoadFails(p, kind) ==
    LET c == proc[p] IN
    /\ c.pc = "load"
    /\ ItemAccepted(c)
    /\ Fails(kind)
    /\ clock' = clock + Built(c)
    /\ nextId' = nextId + Built(c)
    /\ proc' = [proc EXCEPT ![p] =
            Raise(WithItem(c), ServiceExc(c.op, GatewayExc(kind)), GatewayCause(kind))]
    /\ UNCHANGED <<users, lists, uniqueIndex, started>>

\* Database.get_or_create_shopping_list inserts ShoppingList(user_id) for
\* get_shopping_list, and the tool formats it
CreateListGet(p) ==
    LET c == proc[p]
        new == NewList(c.user_id, clock)
    IN
    /\ c.pc = "create_list"
    /\ c.op = "get_shopping_list"
    /\ Reached
    /\ lists' = Append(lists, ListToDict(new))
    /\ clock' = clock + 2
    /\ proc' = [proc EXCEPT ![p] =
            Return([c EXCEPT !.loaded = Some(new), !.writes = @ + 1], FormatShoppingList(new))]
    /\ UNCHANGED <<users, uniqueIndex, nextId, started>>

\* Database.get_or_create_shopping_list inserts ShoppingList(user_id) for
\* add_item, which appends its item in memory
CreateListAdd(p) ==
    LET c == proc[p]
        new == NewList(c.user_id, clock)
        m == Mutate(c, new, clock + 2)
    IN
    /\ c.pc = "create_list"
    /\ c.op = "add_item"
    /\ Reached
    /\ lists' = Append(lists, ListToDict(new))
    /\ clock' = clock + 2 + m.ticks
    /\ proc' = [proc EXCEPT ![p] =
            [c EXCEPT !.pc = "write", !.loaded = Some(new), !.list = Some(m.list),
                      !.writes = @ + 1]]
    /\ UNCHANGED <<users, uniqueIndex, nextId, started>>

\* Database.create_shopping_list raises
CreateListFails(p, kind) ==
    LET c == proc[p] IN
    /\ c.pc = "create_list"
    /\ Fails(kind)
    /\ clock' = clock + 2
    /\ proc' = [proc EXCEPT ![p] =
            Raise(c, ServiceExc(c.op, GatewayExc(kind)), GatewayCause(kind))]
    /\ UNCHANGED <<users, lists, uniqueIndex, nextId, started>>

\* Database.update_shopping_list replaces the stored document by the list in
\* memory, and the tool returns its success string
WriteList(p) ==
    LET c == proc[p]
        done == Return([c EXCEPT !.writes = @ + 1, !.updates = @ + 1, !.latest = TRUE],
                       ToolSuccess(c.op, c.item_name,
                                   IF c.op = "add_item" THEN c.quantity[1] ELSE Float(0),
                                   IF c.op = "add_item" THEN c.unit[1] ELSE <<>>,
                                   c.count))
    IN
    /\ c.pc = "write"
    /\ Reached
    /\ lists' = UpdateOneUpsert(lists, ListToDict(c.list[1]))
    /\ proc' = [q \in Workers |->
            IF q = p THEN done
            ELSE IF proc[q].user_id = c.user_id /\ proc[q].pc \in {"create_list", "write"}
            THEN [proc[q] EXCEPT !.missed = @ \cup {p}, !.latest = FALSE]
            ELSE IF proc[q].user_id = c.user_id THEN [proc[q] EXCEPT !.latest = FALSE]
            ELSE proc[q]]
    /\ UNCHANGED <<users, uniqueIndex, clock, nextId, started>>

\* Database.update_shopping_list raises
WriteListFails(p, kind) ==
    LET c == proc[p] IN
    /\ c.pc = "write"
    /\ Fails(kind)
    /\ proc' = [proc EXCEPT ![p] =
            Raise(c, ServiceExc(c.op, GatewayExc(kind)), GatewayCause(kind))]
    /\ UNCHANGED <<users, lists, uniqueIndex, clock, nextId, started>>

----------------------------------------------------------------------------
(* Specifications *)

\* the steps after a call began that one worker alone can take
Step(p) ==
    \/ GetUser(p)
    \/ \E kind \in FailKinds : GetUserFails(p, kind)
    \/ CreateUser(p)
    \/ \E kind \in FailKinds : CreateUserFails(p, kind)
    \/ AddInvalid(p)
    \/ LoadMissing(p)
    \/ LoadNotFound(p)
    \/ LoadGet(p)
    \/ LoadMutate(p)
    \/ LoadReject(p)
    \/ \E kind \in FailKinds : LoadFails(p, kind)
    \/ CreateListGet(p)
    \/ CreateListAdd(p)
    \/ \E kind \in FailKinds : CreateListFails(p, kind)
    \/ WriteList(p)
    \/ \E kind \in FailKinds : WriteListFails(p, kind)

\* the steps that need a second writer: insert_one raises DuplicateKeyError
\* only when the user was inserted after this call's get_user found none
RaceStep(p) ==
    \/ CreateUserDuplicate(p)
    \/ ReadBack(p)
    \/ \E kind \in FailKinds : ReadBackFails(p, kind)

\* one worker: tool calls run one after the other
Next ==
    \/ \E u \in Users, in \in Inputs : Start("w1", u, in)
    \/ Step("w1")

Spec == Init /\ [][Next]_vars

\* one worker making the calls of one user
OneUserNext ==
    \/ \E in \in Inputs : Start("w1", "u1", in)
    \/ Step("w1")

OneUserSpec == Init /\ [][OneUserNext]_vars

\* the calls two workers make at the same time
ConcInputs ==
    { Input("add_item", Tea, Some(Float(1)), Some(<<>>), Some(<<>>), Some(<<>>)),
      Input("add_item", PaddedMilk, Some(Float(2)), Some(PaddedKg), Some(Dairy), Some(Fresh)),
      Input("add_item", Blank, Some(Float(1)), Some(<<>>), Some(<<>>), Some(<<>>)),
      Input("remove_item", Eggs, None, None, None, None),
      Input("update_item", PaddedMilk, Some(Float(3)), None, None, None),
      Input("check_item", Eggs, None, None, None, None),
      Input("uncheck_item", PaddedMilk, None, None, None, None),
      Input("get_shopping_list", <<>>, None, None, None, None),
      Input("clear_checked_items", <<>>, None, None, None, None),
      Input("clear_all_items", <<>>, None, None, None, None) }

\* two workers: tool calls interleave at the store
ConcNext ==
    \E p \in Workers :
        \/ \E in \in ConcInputs : Start(p, "u1", in)
        \/ Step(p)
        \/ RaceStep(p)

ConcSpec == Init /\ [][ConcNext]_vars

\* two workers, each making the calls of its own user
UserOf(p) == IF p = "w1" THEN "u1" ELSE "u2"

PairNext ==
    \E p \in Workers :
        \/ \E in \in ConcInputs : Start(p, UserOf(p), in)
        \/ Step(p)

PairSpec == Init /\ [][PairNext]_vars

----------------------------------------------------------------------------
(* The gateway by itself: connect, disconnect and its six operations, called *)
(* one after the other                                                       *)

GatewayOps ==
    {"get_user", "create_user", "get_shopping_list", "create_shopping_list",
     "update_shopping_list", "delete_shopping_list"}

\* an ensure_connected that never connects
EnsureConnectedSkips(conn) == [connected |-> conn, attempts |-> 0]

\* Database.ensure_connected when connect() succeeds: _connected afterwards and
\* the connect() calls made
EnsureConnected(conn) ==
    IF ~conn THEN [connected |-> TRUE, attempts |-> 1]
    ELSE [connected |-> conn, attempts |-> 0]

\* Database.disconnect when close() raises nothing: _connected afterwards
Disconnected(conn, cl) == IF cl THEN FALSE ELSE conn

\* delete_one({"user_id": id})
DeleteOne(ls, id) ==
    IF FindList(ls, id) = 0 THEN ls
    ELSE SubSeq(ls, 1, FindList(ls, id) - 1) \o SubSeq(ls, FindList(ls, id) + 1, Len(ls))

\* what the last call of the gateway did
GatewayCall(op, u, attempts, touched, live, e, cause) ==
    [pc |-> "gateway", op |-> op, user_id |-> u,
     wasConnected |-> connected,  \* _connected when the call began
     attempts |-> attempts,       \* connect() calls it made
     touched |-> touched,         \* it called the store
     live |-> live,               \* _connected when it called the store
     exc |-> e, cause |-> cause,
     prevCause |-> proc["w1"].cause,
     before |-> lists, usersBefore |-> users]

GatewayInit ==
    /\ \E store \in SeedStores :
          /\ users = store.users /\ lists = store.lists
          /\ uniqueIndex \in (IF store.users = <<>> THEN BOOLEAN ELSE {FALSE})
    /\ connected = FALSE /\ client = FALSE
    /\ clock = SeedList.updated_at + 1
    /\ nextId = Len(SeedList.items) + 1
    /\ faults = 0
    /\ started = 0
    /\ proc = [w \in Workers |-> IF w = "w1" THEN [IdleCall EXCEPT !.pc = "gateway"] ELSE IdleCall]

GatewayBegins ==
    /\ proc["w1"].pc = "gateway"
    /\ started < MaxGatewayCalls
    /\ started' = started + 1

\* one of the six operations, run to its return
GatewayOp(op, u) ==
    LET ec == EnsureConnected(connected) IN
    /\ GatewayBegins
    /\ connected' = ec.connected
    /\ client' = (IF ec.attempts > 0 THEN TRUE ELSE client)
    /\ faults' = faults
    /\ users' = IF op = "create_user" /\ ~DuplicateKey(users, u)
                THEN Append(users, NewUserDoc(u, clock)) ELSE users
    /\ lists' = CASE op = "create_shopping_list" -> Append(lists, ListToDict(NewList(u, clock)))
                  [] op = "update_shopping_list" -> UpdateOneUpsert(lists, ListToDict(NewList(u, clock)))
                  [] op = "delete_shopping_list" -> DeleteOne(lists, u)
                  [] OTHER -> lists
    /\ clock' = clock + 2
    /\ proc' = [proc EXCEPT !["w1"] = GatewayCall(op, u, ec.attempts, TRUE, ec.connected, NoExc, "")]
    /\ UNCHANGED <<uniqueIndex, nextId>>

\* ensure_connected calls connect(), which raises: the operation raises
\* DatabaseConnectionError before it reaches the store
GatewayOpConnectFails(op, u) ==
    /\ GatewayBegins
    /\ ConnectFails
    /\ proc' = [proc EXCEPT !["w1"] =
            GatewayCall(op, u, 1, FALSE, FALSE, GatewayExc("connect"), GatewayCause("connect"))]
    /\ UNCHANGED <<users, lists, uniqueIndex, clock, nextId>>

\* the store operation raises PyMongoError
GatewayOpStoreFails(op, u) ==
    LET ec == EnsureConnected(connected) IN
    /\ GatewayBegins
    /\ StoreFails
    /\ proc' = [proc EXCEPT !["w1"] =
            GatewayCall(op, u, ec.attempts, TRUE, ec.connected,
                        IF op = "create_user" THEN Exc("UserCreationError", "Failed to create user", "")
                        ELSE GatewayExc("store"),
                        GatewayCause("store"))]
    /\ UNCHANGED <<users, lists, uniqueIndex, clock, nextId>>

\* Database.connect() returns
GatewayConnect ==
    /\ GatewayBegins
    /\ connected' = TRUE /\ client' = TRUE /\ faults' = faults
    /\ proc' = [proc EXCEPT !["w1"] = GatewayCall("connect", "", 1, FALSE, FALSE, NoExc, "")]
    /\ UNCHANGED <<users, lists, uniqueIndex, clock, nextId>>

\* Database.connect() raises DatabaseConnectionError; _connected is not assigned
GatewayConnectFails ==
    /\ GatewayBegins
    /\ faults < MaxFaults /\ faults' = faults + 1
    /\ connected' = connected
    /\ client' \in {client, TRUE}
    /\ proc' = [proc EXCEPT !["w1"] =
            GatewayCall("connect", "", 1, FALSE, FALSE, GatewayExc("connect"), GatewayCause("connect"))]
    /\ UNCHANGED <<users, lists, uniqueIndex, clock, nextId>>

\* Database.disconnect(): close() is called when _client is set
GatewayDisconnect ==
    /\ GatewayBegins
    /\ connected' = Disconnected(connected, client)
    /\ client' = client /\ faults' = faults
    /\ proc' = [proc EXCEPT !["w1"] = GatewayCall("disconnect", "", 0, FALSE, FALSE, NoExc, "")]
    /\ UNCHANGED <<users, lists, uniqueIndex, clock, nextId>>

\* Database.disconnect(): close() raises, the except clause logs it and
\* _connected is not assigned
GatewayDisconnectFails ==
    /\ GatewayBegins
    /\ client
    /\ faults < MaxFaults /\ faults' = faults + 1
    /\ connected' = connected /\ client' = client
    /\ proc' = [proc EXCEPT !["w1"] = GatewayCall("disconnect", "", 0, FALSE, FALSE, NoExc, "close")]
    /\ UNCHANGED <<users, lists, uniqueIndex, clock, nextId>>

GatewayNext ==
    \/ \E op \in GatewayOps, u \in Users : GatewayOp(op, u)
    \/ \E op \in GatewayOps, u \in Users : GatewayOpConnectFails(op, u)
    \/ \E op \in GatewayOps, u \in Users : GatewayOpStoreFails(op, u)
    \/ GatewayConnect
    \/ GatewayConnectFails
    \/ GatewayDisconnect
    \/ GatewayDisconnectFails

GatewaySpec == GatewayInit /\ [][GatewayNext]_vars

----------------------------------------------------------------------------
(* The store-level entry point src/shopping_list.py: add_item and remove_item *)
(* work on the collections with $push and $pull                               *)

LegacyNames == {Milk, MILK, Eggs}

\* the user document get_or_create_user inserts
LegacyUserDoc(claude_user_id, now) ==
    [claude_user_id |-> claude_user_id, name |-> <<"User ", claude_user_id>>,
     created_at |-> now, updated_at |-> now]

\* the item document add_item pushes
LegacyItem(item_id, item_name, now) ==
    [item_id |-> item_id, name |-> item_name, quantity |-> Float(1), unit |-> <<>>,
     category |-> <<>>, notes |-> <<>>, checked |-> FALSE, added_at |-> now]

\* {"$regex": f"^{item_name}$", "$options": "i"} on a name of letters
RegexMatches(name, item_name) == Lower(name) = Lower(item_name)

\* "$pull": {"items": {"name": ...}}: every matching element is removed
Pull(items, item_name) ==
    LET Stays(it) == ~RegexMatches(it.name, item_name) IN SelectSeq(items, Stays)

\* the document remove_item's update_one leaves
PulledDoc(doc, item_name, now) ==
    [doc EXCEPT !.items = Pull(@, item_name), !.updated_at = now]

\* result.modified_count: 1 when a document matched the filter and the update
\* changed it
ModifiedCount(ls, user_id, item_name, now) ==
    IF FindList(ls, user_id) = 0 THEN 0
    ELSE IF PulledDoc(ls[FindList(ls, user_id)], item_name, now) = ls[FindList(ls, user_id)]
    THEN 0 ELSE 1

\* what the last call did
LegacyCall(op, u, item_name, modified, msg) ==
    [pc |-> "legacy", op |-> op, user_id |-> u, item_name |-> item_name,
     modified |-> modified, result |-> Some(msg), before |-> lists]

LegacyInit ==
    /\ users = <<>> /\ lists = <<>>
    /\ uniqueIndex = FALSE
    /\ connected = TRUE /\ client = TRUE
    /\ clock = 1 /\ nextId = 1
    /\ faults = 0 /\ started = 0
    /\ proc = [w \in Workers |-> IF w = "w1" THEN [IdleCall EXCEPT !.pc = "legacy"] ELSE IdleCall]

LegacyBegins ==
    /\ proc["w1"].pc = "legacy"
    /\ started < MaxLegacyCalls
    /\ started' = started + 1

\* add_item: get_or_create_user, then update_one with $push and upsert.  The
\* clock reads now; it may not have advanced since the last stamp written.
LegacyAddItem(u, item_name, now) ==
    LET i == FindList(lists, u)
        item == LegacyItem(nextId, item_name, now)
    IN
    /\ LegacyBegins
    /\ users' = IF FindUser(users, u) = 0 THEN Append(users, LegacyUserDoc(u, now)) ELSE users
    /\ lists' = IF i = 0
                THEN Append(lists, [user_id |-> u, items |-> <<item>>, updated_at |-> now])
                ELSE [lists EXCEPT ![i].items = Append(@, item), ![i].updated_at = now]
    /\ clock' = now
    /\ nextId' = nextId + 1
    /\ proc' = [proc EXCEPT !["w1"] =
            LegacyCall("add_item", u, item_name, 1,
                       Msg(<<"Added '", "{}", "' (quantity: ", "{}", " ", "{}",
                             ") to your shopping list.">>,
                           <<item_name, FloatStr(Float(1)), <<>> >>))]
    /\ UNCHANGED <<uniqueIndex, connected, client, faults>>

\* remove_item: update_one with $pull and $set updated_at, then the string
\* chosen by modified_count
LegacyRemoveItem(u, item_name, now) ==
    LET i == FindList(lists, u)
        n == ModifiedCount(lists, u, item_name, now)
    IN
    /\ LegacyBegins
    /\ lists' = IF i = 0 THEN lists
                ELSE [lists EXCEPT ![i] = PulledDoc(@, item_name, now)]
    /\ clock' = now
    /\ proc' = [proc EXCEPT !["w1"] =
            LegacyCall("remove_item", u, item_name, n,
                       IF n > 0
                       THEN Msg(<<"Removed '", "{}", "' from your shopping list.">>, <<item_name>>)
                       ELSE CouldNotFindMsg(item_name))]
    /\ UNCHANGED <<users, uniqueIndex, connected, client, nextId, faults>>

LegacyNext ==
    \/ \E u \in Users, item_name \in LegacyNames, now \in {clock, clock + 1} :
          LegacyAddItem(u, item_name, now)
    \/ \E u \in Users, item_name \in LegacyNames, now \in {clock, clock + 1} :
          LegacyRemoveItem(u, item_name, now)

LegacySpec == LegacyInit /\ [][LegacyNext]_vars

Text(n) == [i \in 1..n |-> "x"]

\* the constructor's arguments: names and notes at and beyond their bounds,
\* quantities on both sides of zero and nan
ItemNames == {Tea, <<>>, Blank, Text(MaxNameLen), Text(MaxNameLen + 1)}
ItemQuantities == {Float(-1), Float(0), Float(1), NaN}
ItemNotes == {<<>>, Text(MaxNotesLen), Text(MaxNotesLen + 1)}
ItemUnits == {<<>>, Kg}
ItemCategories == {<<>>, Dairy}

ItemInit ==
    /\ users = <<>> /\ lists = <<>> /\ uniqueIndex = FALSE /\ connected = FALSE /\ client = FALSE
    /\ clock = 0 /\ nextId = 1 /\ faults = 0 /\ started = 0
    /\ \E name \in ItemNames, quantity \in ItemQuantities, unit \in ItemUnits,
          category \in ItemCategories, notes \in ItemNotes :
          proc = [w \in Workers |->
                    IF w = "w1"
                    THEN [IdleCall EXCEPT !.pc = "construct", !.op = "ShoppingItem",
                                          !.item_name = name, !.quantity = Some(quantity),
                                          !.unit = Some(unit), !.category = Some(category),
                                          !.notes = Some(notes)]
                    ELSE IdleCall]

\* ShoppingItem(name, quantity, unit, category, notes): the default factories
\* run, then __post_init__ validates
Construct(p) ==
    LET c == proc[p]
        item == NewItem(c.item_name, c.quantity[1], c.unit[1], c.category[1], c.notes[1],
                        nextId, clock)
    IN  /\ c.pc = "construct"
        /\ clock' = clock + 1
        /\ nextId' = nextId + 1
        /\ proc' = [proc EXCEPT ![p] =
                IF ItemValidate(item) # None
                THEN [c EXCEPT !.pc = "done", !.exc = ValidationError(ItemValidate(item)[1]),
                               !.cause = "ValidationError"]
                ELSE [c EXCEPT !.pc = "done", !.item = Some(item)]]
        /\ UNCHANGED <<users, lists, uniqueIndex, connected, client, faults, started>>

ItemNext == Construct("w1")

ItemSpec == ItemInit /\ [][ItemNext]_vars

----------------------------------------------------------------------------
(* Properties *)

MutatingOps ==
    {"add_item", "remove_item", "update_item", "check_item", "uncheck_item",
     "clear_checked_items", "clear_all_items"}
NamedOps == {"remove_item", "update_item", "check_item", "uncheck_item"}
ClearOps == {"clear_checked_items", "clear_all_items"}
GatewayFailures == {"PyMongoError", "DatabaseConnectionError"}

\* the call of worker p returned the success string of tool op
Returned(p, op) == proc[p].pc = "done" /\ proc[p].op = op /\ proc[p].exc = NoExc

DocsOf(ls, u) == {i \in 1..Len(ls) : ls[i].user_id = u}

\* the item documents of the list find_one returns for user u
StoredItems(u) ==
    IF DocsOf(lists, u) = {} THEN <<>>
    ELSE lists[CHOOSE i \in DocsOf(lists, u) : \A j \in DocsOf(lists, u) : i <= j].items

Position(items, item) ==
    IF \E i \in 1..Len(items) : items[i] = ItemToDict(item)
    THEN CHOOSE i \in 1..Len(items) : items[i] = ItemToDict(item)
    ELSE 0

HasId(items, item) == \E i \in 1..Len(items) : items[i].item_id = item.item_id

\* two add_item calls of one user with different names, q having loaded the
\* list before p wrote it and written it after p
StaleAdds(p, q) ==
    /\ p # q
    /\ Returned(p, "add_item") /\ Returned(q, "add_item")
    /\ proc[p].user_id = proc[q].user_id
    /\ proc[p].item_name # proc[q].item_name
    /\ p \in proc[q].missed

\* C1: when two add_item calls of one user, with different names, both load the
\* list before either writes it, then once both have returned the stored list
\* holds the item of the call that wrote last and not the item of the call
\* that wrote first.
C1_LostUpdate ==
    \A p, q \in Workers :
        StaleAdds(p, q) =>
            /\ Position(StoredItems(proc[q].user_id), proc[q].item[1]) # 0
            /\ ~HasId(StoredItems(proc[q].user_id), proc[p].item[1])

C1_Witness == \E p, q \in Workers : StaleAdds(p, q)

\* two add_item calls of one user with different names, q having loaded the
\* list when p's write was the last one applied
OrderedAdds(p, q) ==
    /\ p # q
    /\ Returned(p, "add_item") /\ Returned(q, "add_item")
    /\ proc[p].user_id = proc[q].user_id
    /\ proc[p].item_name # proc[q].item_name
    /\ p \in proc[q].after

\* C2: when the second of two add_item calls of one user loads the list only
\* after the first call's write was applied, both items are stored once both
\* have returned, the first call's item before the second call's.
C2_BothAddsKept ==
    \A p, q \in Workers :
        OrderedAdds(p, q) =>
            LET items == StoredItems(proc[q].user_id) IN
            /\ Position(items, proc[p].item[1]) # 0
            /\ Position(items, proc[q].item[1]) # 0
            /\ Position(items, proc[p].item[1]) < Position(items, proc[q].item[1])

C2_Witness == \E p, q \in Workers : OrderedAdds(p, q)

\* two mutating calls of one user that both returned, q having loaded the list
\* before p wrote it and written it after p
Overlapped(p, q) ==
    /\ p # q
    /\ proc[p].pc = "done" /\ proc[p].exc = NoExc /\ proc[p].op \in MutatingOps
    /\ proc[q].pc = "done" /\ proc[q].exc = NoExc /\ proc[q].op \in MutatingOps
    /\ proc[p].user_id = proc[q].user_id
    /\ p \in proc[q].missed

\* C3: for two overlapping mutating calls of one user, once both have returned
\* the stored list is the one the last writer wrote: its own loaded snapshot
\* with its own change applied, and nothing else.
C3_LastWriterWins ==
    \A p, q \in Workers :
        Overlapped(p, q) =>
            LET u == proc[q].user_id
                doc == lists[CHOOSE i \in DocsOf(lists, u) : \A j \in DocsOf(lists, u) : i <= j]
            IN  /\ DocsOf(lists, u) # {}
                /\ \E t \in 0..clock :
                      /\ Mutate(proc[q], proc[q].loaded[1], t).exc = NoExc
                      /\ doc = ListToDict(Mutate(proc[q], proc[q].loaded[1], t).list)

C3_Witness ==
    \E p, q \in Workers :
        /\ Overlapped(p, q)
        /\ proc[p].op = "check_item" /\ proc[q].op = "clear_checked_items"
        /\ ~HasId(StoredItems(proc[q].user_id), SeedList.items[1])

\* C4: the shopping_lists collection holds at most one document per user_id.
C4_OneListPerUser == \A u \in Users : Cardinality(DocsOf(lists, u)) <= 1

UserDocsOf(us, u) == {i \in 1..Len(us) : us[i].claude_user_id = u}

\* C5: the users collection holds at most one document per claude_user_id.
C5_OneUserPerId == \A u \in Users : Cardinality(UserDocsOf(users, u)) <= 1

\* C6: when insert_one of create_user raises DuplicateKeyError, the users
\* collection stays as it is, and the read-back that follows, unless it raises
\* itself, returns the stored user of that id; UserCreationError is raised for
\* the duplicate only when the read-back finds no such user.
C6_DuplicateReturnsExisting ==
    [][\A p \in Workers :
        LET c == proc[p]
            d == proc'[p]
        IN  /\ (c.pc = "create_user" /\ d.pc = "read_back") => users' = users
            /\ (c.pc = "read_back" /\ d.pc # "read_back") =>
                  /\ users' = users
                  /\ (UserDocsOf(users, c.user_id) # {} /\ d.cause \notin GatewayFailures) =>
                        /\ d.pc = "load"
                        /\ d.exc = NoExc
                        /\ d.user # None
                        /\ d.user[1] \in {users[i] : i \in UserDocsOf(users, c.user_id)}
                  /\ d.exc.type = "UserCreationError" => UserDocsOf(users, c.user_id) = {}]_vars

C6_Witness ==
    \E p \in Workers :
        /\ proc[p].dup /\ proc[p].pc = "load"
        /\ proc[p].user # None
        /\ Cardinality(UserDocsOf(users, proc[p].user_id)) = 1

\* C7: a call that ends in an error outcome leaves the stored shopping-list
\* documents as they were when it began.
C7_ErrorLeavesListsUnchanged ==
    \A p \in Workers :
        (proc[p].pc = "done" /\ proc[p].exc # NoExc) => lists = proc[p].before

\* the list the call of worker p found stored when it began has no document
\* for its user, or no item matching its (trimmed, case-folded) name
NoListBefore(p) == DocsOf(proc[p].before, proc[p].user_id) = {}
NoMatchBefore(p) ==
    \A i \in DocsOf(proc[p].before, proc[p].user_id) :
        \A k \in 1..Len(proc[p].before[i].items) :
            Lower(proc[p].before[i].items[k].name) # Lower(Strip(proc[p].item_name))

\* C8: remove_item, update_item, check_item and uncheck_item for a user with no
\* stored list, or with a name no item matches, return "Could not find
\* '<name>' in your shopping list."; clear_checked_items and clear_all_items
\* for a user with no stored list return "No shopping list found."; no list
\* document is created and nothing is written.  (The load itself raised
\* nothing.)
C8_NotFoundMessages ==
    \A p \in Workers :
        (proc[p].pc = "done" /\ proc[p].cause \notin GatewayFailures) =>
            /\ (proc[p].op \in NamedOps /\ (NoListBefore(p) \/ NoMatchBefore(p))) =>
                  /\ proc[p].result = Some(CouldNotFindMsg(proc[p].item_name))
                  /\ lists = proc[p].before
                  /\ proc[p].writes = 0
            /\ (proc[p].op \in ClearOps /\ NoListBefore(p)) =>
                  /\ proc[p].result = Some(NoListMsg)
                  /\ lists = proc[p].before
                  /\ proc[p].writes = 0

C8_Witness ==
    \E p \in Workers :
        /\ proc[p].pc = "done" /\ proc[p].op = "remove_item"
        /\ ~NoListBefore(p) /\ NoMatchBefore(p)
        /\ proc[p].result = Some(CouldNotFindMsg(Tea))

\* C9: get_shopping_list for a user with no stored list inserts one document
\* for that user, with no items and the default name, and returns "Your
\* shopping list is empty."; for a user with a stored list it returns that
\* list and inserts nothing.
C9_GetOrCreate ==
    \A p \in Workers :
        Returned(p, "get_shopping_list") =>
            LET c == proc[p] IN
            IF NoListBefore(p)
            THEN /\ Len(lists) = Len(c.before) + 1
                 /\ SubSeq(lists, 1, Len(c.before)) = c.before
                 /\ lists[Len(lists)].user_id = c.user_id
                 /\ lists[Len(lists)].items = <<>>
                 /\ lists[Len(lists)].list_name = "My Shopping List"
                 /\ c.result = Some(EmptyListMsg)
            ELSE /\ lists = c.before
                 /\ Cardinality(DocsOf(lists, c.user_id)) = 1
                 /\ \A i \in DocsOf(lists, c.user_id) :
                       /\ c.loaded = Some(ListFromDict(lists[i]))
                       /\ c.result = Some(FormatShoppingList(ListFromDict(lists[i])))

C9_Witness ==
    \E p \in Workers :
        /\ Returned(p, "get_shopping_list") /\ NoListBefore(p)
        /\ Cardinality(DocsOf(lists, proc[p].user_id)) = 1

\* the first stored item matching the name of worker p's call, read back from
\* the store
Matched(p) ==
    LET u == proc[p].user_id
        l == ListFromDict(lists[CHOOSE i \in DocsOf(lists, u) : TRUE])
    IN  l.items[FindItem(l, Strip(proc[p].item_name))]

MatchedList(p) == ListFromDict(lists[CHOOSE i \in DocsOf(lists, proc[p].user_id) : TRUE])

\* the call of worker p unchecked the item its previous call had checked
RoundTrip(p) ==
    /\ Returned(p, "uncheck_item")
    /\ proc[p].prevCheck # None
    /\ proc[p].prevCheck[1].user_id = proc[p].user_id
    /\ proc[p].prevCheck[1].item.item_id = Matched(p).item_id
    /\ ~proc[p].prevCheck[1].item.checked

\* C10: after check_item returned, the stored item it matched is checked, has
\* a checked_at timestamp and is listed under purchased; after uncheck_item
\* returned, the stored item it matched is unchecked and has no checked_at, so
\* that check followed by uncheck gives an unchecked item its checked and
\* checked_at back.
C10_CheckUncheck ==
    \A p \in Workers :
        /\ Returned(p, "check_item") =>
              /\ FindItem(MatchedList(p), Strip(proc[p].item_name)) # 0
              /\ Matched(p).checked
              /\ Matched(p).checked_at # None
              /\ \E k \in 1..Len(FormatShoppingList(MatchedList(p)).purchased) :
                    FormatShoppingList(MatchedList(p)).purchased[k] = PurchasedLine(Matched(p))
              /\ \E k \in 1..Len(GetCheckedItems(MatchedList(p))) :
                    GetCheckedItems(MatchedList(p))[k] = Matched(p)
        /\ Returned(p, "uncheck_item") =>
              /\ FindItem(MatchedList(p), Strip(proc[p].item_name)) # 0
              /\ ~Matched(p).checked
              /\ Matched(p).checked_at = None
        /\ RoundTrip(p) =>
              /\ Matched(p).checked = proc[p].prevCheck[1].item.checked
              /\ Matched(p).checked_at = proc[p].prevCheck[1].item.checked_at

C10_Witness == \E p \in Workers : RoundTrip(p)

\* the item documents of the list stored for the user of worker p's call when
\* the call began
BeforeItems(p) ==
    LET u == proc[p].user_id IN
    IF DocsOf(proc[p].before, u) = {} THEN <<>>
    ELSE proc[p].before[CHOOSE i \in DocsOf(proc[p].before, u) :
                            \A j \in DocsOf(proc[p].before, u) : i <= j].items

\* item document d has the name worker p's call targets, case-insensitively
Targets(p, d) == Lower(d.name) = Lower(Strip(proc[p].item_name))

\* position k of items holds the first item worker p's call targets
IsFirstTarget(p, items, k) ==
    /\ Targets(p, items[k])
    /\ \A j \in 1..(k - 1) : ~Targets(p, items[j])

\* C11: after a successful check_item, uncheck_item or update_item the stored
\* list has the items it had, each unchanged except the first one in list
\* order whose name equals the target case-insensitively; that one is the
\* item acted on.
C11_FirstMatchOnly ==
    \A p \in Workers :
        (\E op \in {"check_item", "uncheck_item", "update_item"} : Returned(p, op)) =>
            LET old == BeforeItems(p)
                new == StoredItems(proc[p].user_id)
            IN  /\ Len(new) = Len(old)
                /\ \A k \in 1..Len(old) :
                      IF IsFirstTarget(p, old, k)
                      THEN /\ proc[p].op = "check_item" => new[k].checked
                           /\ proc[p].op = "uncheck_item" => ~new[k].checked
                           /\ (proc[p].op = "update_item" /\ proc[p].quantity # None) =>
                                 new[k].quantity = proc[p].quantity[1]
                      ELSE new[k] = old[k]

C11_Witness ==
    \E p \in Workers :
        /\ Returned(p, "update_item")
        /\ proc[p].quantity # None
        /\ \E j, k \in 1..Len(BeforeItems(p)) :
              /\ j < k
              /\ Targets(p, BeforeItems(p)[j]) /\ Targets(p, BeforeItems(p)[k])
              /\ StoredItems(proc[p].user_id)[j] # BeforeItems(p)[j]
              /\ StoredItems(proc[p].user_id)[k] = BeforeItems(p)[k]

\* C12: after a successful remove_item the stored list holds no item whose name
\* equals the target case-insensitively, and holds every other item it held,
\* unchanged and in the same relative order.
C12_RemoveAllMatches ==
    \A p \in Workers :
        Returned(p, "remove_item") =>
            LET old == BeforeItems(p)
                new == StoredItems(proc[p].user_id)
                RemovedUpTo(k) == Cardinality({j \in 1..k : Targets(p, old[j])})
            IN  /\ \A k \in 1..Len(new) : ~Targets(p, new[k])
                /\ Len(new) = Len(old) - RemovedUpTo(Len(old))
                /\ \A k \in 1..Len(old) :
                      ~Targets(p, old[k]) => new[k - RemovedUpTo(k)] = old[k]

C12_Witness ==
    \E p \in Workers :
        /\ Returned(p, "remove_item")
        /\ Cardinality({j \in 1..Len(BeforeItems(p)) : Targets(p, BeforeItems(p)[j])}) >= 2
        /\ Len(StoredItems(proc[p].user_id)) >= 1

\* C13: after a successful clear_checked_items on an existing list the count
\* returned is the number of items that were checked, the stored list holds
\* exactly the items that were unchecked, in their order, and the tool's
\* string is "Removed <count> purchased item(s) from your shopping list.".
C13_ClearChecked ==
    \A p \in Workers :
        Returned(p, "clear_checked_items") =>
            LET old == BeforeItems(p)
                new == StoredItems(proc[p].user_id)
                CheckedUpTo(k) == Cardinality({j \in 1..k : old[j].checked})
            IN  /\ proc[p].count = CheckedUpTo(Len(old))
                /\ Len(new) = Len(old) - CheckedUpTo(Len(old))
                /\ \A k \in 1..Len(old) : ~old[k].checked => new[k - CheckedUpTo(k)] = old[k]
                /\ proc[p].result =
                      Some(Msg(<<"Removed ", "{}", " purchased item(s) from your shopping list.">>,
                               <<NumStr(CheckedUpTo(Len(old)))>>))

C13_Witness ==
    \E p \in Workers :
        /\ Returned(p, "clear_checked_items")
        /\ proc[p].count = 2
        /\ Len(StoredItems(proc[p].user_id)) = 1

\* the list document stored for the user of worker p's call: when the call
\* began, and now
BeforeDoc(p) ==
    proc[p].before[CHOOSE i \in DocsOf(proc[p].before, proc[p].user_id) :
                       \A j \in DocsOf(proc[p].before, proc[p].user_id) : i <= j]
StoredDoc(p) ==
    lists[CHOOSE i \in DocsOf(lists, proc[p].user_id) :
              \A j \in DocsOf(lists, proc[p].user_id) : i <= j]

\* C14: after a successful clear_all_items on a list that held items, the
\* stored list holds none, the count returned is the number it held, and the
\* list document is still stored with its owner, name and created_at.
C14_ClearAll ==
    \A p \in Workers :
        (Returned(p, "clear_all_items") /\ BeforeItems(p) # <<>>) =>
            /\ DocsOf(lists, proc[p].user_id) = DocsOf(proc[p].before, proc[p].user_id)
            /\ Len(lists) = Len(proc[p].before)
            /\ StoredDoc(p).items = <<>>
            /\ proc[p].count = Len(BeforeItems(p))
            /\ StoredDoc(p).user_id = BeforeDoc(p).user_id
            /\ StoredDoc(p).list_name = BeforeDoc(p).list_name
            /\ StoredDoc(p).created_at = BeforeDoc(p).created_at

C14_Witness ==
    \E p \in Workers :
        /\ Returned(p, "clear_all_items")
        /\ Len(BeforeItems(p)) = 3
        /\ StoredItems(proc[p].user_id) = <<>>

\* C15: after a successful update_item the matched item has, for each of
\* quantity, unit, category and notes, the value supplied (text trimmed) when
\* one was supplied and its stored value otherwise; its name, item_id,
\* checked, checked_at and added_at are as stored; every other item is
\* unchanged.
C15_PartialUpdate ==
    \A p \in Workers :
        Returned(p, "update_item") =>
            LET c == proc[p]
                old == BeforeItems(p)
                new == StoredItems(c.user_id)
            IN  /\ Len(new) = Len(old)
                /\ \E k \in 1..Len(old) : IsFirstTarget(p, old, k)
                /\ \A k \in 1..Len(old) :
                      IF IsFirstTarget(p, old, k)
                      THEN /\ new[k].quantity = IF c.quantity # None THEN c.quantity[1] ELSE old[k].quantity
                           /\ new[k].unit = IF c.unit # None THEN Strip(c.unit[1]) ELSE old[k].unit
                           /\ new[k].category = IF c.category # None THEN Strip(c.category[1]) ELSE old[k].category
                           /\ new[k].notes = IF c.notes # None THEN Strip(c.notes[1]) ELSE old[k].notes
                           /\ new[k].name = old[k].name
                           /\ new[k].item_id = old[k].item_id
                           /\ new[k].checked = old[k].checked
                           /\ new[k].checked_at = old[k].checked_at
                           /\ new[k].added_at = old[k].added_at
                      ELSE new[k] = old[k]

C15_Witness ==
    \E p \in Workers :
        /\ Returned(p, "update_item")
        /\ proc[p].quantity = Some(Float(3)) /\ proc[p].unit = None /\ proc[p].notes = None
        /\ \E k \in 1..Len(BeforeItems(p)) :
              /\ IsFirstTarget(p, BeforeItems(p), k)
              /\ BeforeItems(p)[k].quantity = Float(2)
              /\ StoredItems(proc[p].user_id)[k].quantity = Float(3)
              /\ StoredItems(proc[p].user_id)[k].unit = Kg
              /\ StoredItems(proc[p].user_id)[k].notes = Fresh

\* C16: every item of every stored list has a name that is non-empty when
\* trimmed and at most 200 characters long, a quantity >= 0 and notes of at
\* most 500 characters.
C16_StoredItemsValid ==
    \A i \in 1..Len(lists) :
        \A k \in 1..Len(lists[i].items) :
            /\ Strip(lists[i].items[k].name) # <<>>
            /\ Len(lists[i].items[k].name) <= MaxNameLen
            /\ FloatGe(lists[i].items[k].quantity, Float(0))
            /\ Len(lists[i].items[k].notes) <= MaxNotesLen

\* the construction of worker p ended
Constructed(p) == proc[p].pc = "done" /\ proc[p].op = "ShoppingItem"

NamesField(p, field) ==
    proc[p].exc.type = "ValidationError" /\ proc[p].exc.field = field /\ proc[p].item = None

\* C17 as stated: constructing a ShoppingItem with quantity < 0 fails naming
\* field quantity, with a name longer than 200 characters fails naming field
\* name, with notes longer than 500 characters fails naming field notes,
\* whatever the other fields are.
C17_FieldNamedWhateverOthers ==
    \A p \in Workers :
        Constructed(p) =>
            /\ FloatLt(proc[p].quantity[1], Float(0)) => NamesField(p, "quantity")
            /\ Len(proc[p].item_name) > MaxNameLen => NamesField(p, "name")
            /\ Len(proc[p].notes[1]) > MaxNotesLen => NamesField(p, "notes")

\* C17 as amended: such a construction always fails with a validation error,
\* which names the field of the first check that fails, the checks being, in
\* order, name blank, quantity < 0, name longer than 200, notes longer than
\* 500; a construction none of them rejects succeeds.
C17_FirstFailingField ==
    \A p \in Workers :
        Constructed(p) =>
            LET c == proc[p]
                blank == \A i \in 1..Len(c.item_name) : IsSpace(c.item_name[i])
                negative == FloatLt(c.quantity[1], Float(0))
                longName == Len(c.item_name) > MaxNameLen
                longNotes == Len(c.notes[1]) > MaxNotesLen
            IN  IF blank THEN NamesField(p, "name")
                ELSE IF negative THEN NamesField(p, "quantity")
                ELSE IF longName THEN NamesField(p, "name")
                ELSE IF longNotes THEN NamesField(p, "notes")
                ELSE c.exc = NoExc /\ c.item # None

C17_Witness ==
    \E p \in Workers :
        /\ Constructed(p)
        /\ FloatLt(proc[p].quantity[1], Float(0))
        /\ Len(proc[p].item_name) > MaxNameLen
        /\ Len(proc[p].notes[1]) > MaxNotesLen
        /\ NamesField(p, "quantity")

\* a list was stored for the user of worker p's call when the call began
ListBefore(p) == DocsOf(proc[p].before, proc[p].user_id) # {}

\* C18: a successful add_item, remove_item, update_item, check_item or
\* uncheck_item on a stored list makes its updated_at later; so do
\* clear_checked_items and clear_all_items when they removed an item, and
\* they leave it as it was when they removed none; get_shopping_list leaves
\* it as it was; no call changes created_at.
C18_UpdatedAt ==
    \A p \in Workers :
        (proc[p].pc = "done" /\ proc[p].op # "ShoppingItem" /\ ListBefore(p)) =>
            /\ (\E op \in {"add_item", "remove_item", "update_item", "check_item", "uncheck_item"} :
                    Returned(p, op)) =>
                  StoredDoc(p).updated_at > BeforeDoc(p).updated_at
            /\ Returned(p, "clear_checked_items") =>
                  IF \E k \in 1..Len(BeforeItems(p)) : BeforeItems(p)[k].checked
                  THEN StoredDoc(p).updated_at > BeforeDoc(p).updated_at
                  ELSE StoredDoc(p).updated_at = BeforeDoc(p).updated_at
            /\ Returned(p, "clear_all_items") =>
                  IF BeforeItems(p) # <<>>
                  THEN StoredDoc(p).updated_at > BeforeDoc(p).updated_at
                  ELSE StoredDoc(p).updated_at = BeforeDoc(p).updated_at
            /\ Returned(p, "get_shopping_list") =>
                  StoredDoc(p).updated_at = BeforeDoc(p).updated_at
            /\ StoredDoc(p).created_at = BeforeDoc(p).created_at

C18_Witness ==
    \E p \in Workers :
        /\ Returned(p, "clear_all_items")
        /\ ListBefore(p) /\ BeforeItems(p) = <<>>
        /\ proc[p].writes = 1
        /\ StoredDoc(p).updated_at = BeforeDoc(p).updated_at

\* after a successful add_item the stored list is the one stored when the call
\* began with the new item appended
AddAppends ==
    \A p \in Workers :
        Returned(p, "add_item") =>
            StoredItems(proc[p].user_id) = Append(BeforeItems(p), ItemToDict(proc[p].item[1]))

\* a step keeps every list document in its place, and any two items of it that
\* are still stored after the step are in the order they had
KeepsOrder ==
    \A i \in 1..Len(lists) :
        /\ i <= Len(lists')
        /\ \A a, b \in 1..Len(lists[i].items) :
              a < b =>
                  \A a2, b2 \in 1..Len(lists'[i].items) :
                      ( /\ lists'[i].items[a2].item_id = lists[i].items[a].item_id
                        /\ lists'[i].items[b2].item_id = lists[i].items[b].item_id ) => a2 < b2

\* C19: a successful add_item lengthens the stored list by exactly one item,
\* placed at the end, also when an item of the same name is stored; and no
\* step of any call changes the relative order of two items that both stay
\* in the list.
C19_AppendKeepsOrder == [](AddAppends) /\ [][KeepsOrder]_vars

C19_Witness ==
    \E p \in Workers :
        /\ Returned(p, "add_item")
        /\ \E k \in 1..Len(BeforeItems(p)) : Targets(p, BeforeItems(p)[k])
        /\ Len(StoredItems(proc[p].user_id)) = Len(BeforeItems(p)) + 1
        /\ Targets(p, StoredItems(proc[p].user_id)[Len(BeforeItems(p)) + 1])

ListDocsFor(ls, v) == LET Of(d) == d.user_id = v IN SelectSeq(ls, Of)
UserDocsFor(us, v) == LET Of(d) == d.claude_user_id = v IN SelectSeq(us, Of)

\* C20: a step of a call made for user u leaves the list documents and the
\* user documents of every other user as they are, whatever the calls of the
\* other users are doing in between.
C20_OtherUsersUntouched ==
    [][\A p \in Workers :
          proc'[p].pc # proc[p].pc =>
              \A v \in Users \ {proc'[p].user_id} :
                  /\ ListDocsFor(lists', v) = ListDocsFor(lists, v)
                  /\ UserDocsFor(users', v) = UserDocsFor(users, v)]_vars

C20_Witness ==
    /\ Returned("w2", "add_item")
    /\ proc["w1"].pc = "write" /\ proc["w1"].op = "clear_all_items"
    /\ proc["w2"].after = {} /\ proc["w2"].missed = {}
    /\ Len(StoredItems("u1")) = 3
    /\ Len(StoredItems("u2")) = 1
    /\ Len(users) = 2

\* the last call of the gateway
Last == proc["w1"]

\* C21: a gateway operation calls the store only with the gateway connected;
\* begun on a gateway that is not connected it calls connect() exactly once,
\* also right after a failed connect or a disconnect; when that connect
\* fails it raises DatabaseConnectionError, has not called the store, has
\* changed no document, and the gateway is not connected.
C21_ConnectedBeforeStore ==
    (Last.pc = "gateway" /\ Last.op \in GatewayOps) =>
        /\ Last.touched => Last.live
        /\ ~Last.wasConnected => Last.attempts = 1
        /\ Last.wasConnected => Last.attempts = 0
        /\ Last.cause = "DatabaseConnectionError" =>
              /\ ~Last.touched
              /\ Last.exc.type = "DatabaseConnectionError"
              /\ users = Last.usersBefore /\ lists = Last.before
              /\ ~connected
        /\ Last.exc = NoExc => Last.touched /\ connected

C21_Witness ==
    /\ Last.pc = "gateway" /\ Last.op = "update_shopping_list"
    /\ Last.prevCause = "DatabaseConnectionError"
    /\ ~Last.wasConnected /\ Last.attempts = 1 /\ Last.touched /\ Last.exc = NoExc
    /\ lists # Last.before

\* C22: a connect() that returns on a connected gateway leaves it connected; a
\* disconnect() on a gateway that is not connected leaves it not connected;
\* disconnect() raises nothing and after it the gateway is not connected.
C22_ConnectDisconnectIdempotent ==
    Last.pc = "gateway" =>
        /\ (Last.op = "connect" /\ Last.exc = NoExc) => connected
        /\ Last.op = "disconnect" => Last.exc = NoExc /\ ~connected

\* the call of worker p has returned a string
ReturnedString(p) ==
    /\ proc[p].pc = "done"
    /\ proc[p].result # None
    /\ proc[p].result[1].text # <<>>

\* the call of worker p, not yet ended, has a next step: the stored list is
\* loaded and the use case changes it or raises, or one of the other steps is
\* enabled
CanStep(p) ==
    \/ /\ proc[p].pc = "load" /\ proc[p].op # "get_shopping_list"
       /\ ItemAccepted(proc[p]) /\ FindList(lists, proc[p].user_id) # 0
    \/ ENABLED (GetUser(p) \/ CreateUser(p) \/ AddInvalid(p) \/ LoadMissing(p)
                \/ LoadNotFound(p) \/ LoadGet(p) \/ CreateListGet(p)
                \/ CreateListAdd(p) \/ WriteList(p))

\* how far a call has come
Stage(pc) ==
    CASE pc = "idle" -> 0 [] pc = "get_user" -> 1 [] pc = "create_user" -> 2
      [] pc = "read_back" -> 3 [] pc = "load" -> 4 [] pc = "create_list" -> 5
      [] pc = "write" -> 6 [] pc = "done" -> 7

\* a step of a call that has not ended takes it further
Advances ==
    \A p \in Workers :
        (proc[p].pc \notin {"idle", "done"} /\ proc'[p] # proc[p]) =>
            Stage(proc'[p].pc) > Stage(proc[p].pc)

\* C23: a tool call that has ended has returned a string, whatever happened
\* in it (success, validation failure, missing list or item, store or
\* connection failure, any other exception); a call that has not ended has a
\* next step, and each step takes it further towards its end: no exception
\* leaves a tool.
C23_AlwaysAString ==
    /\ [](\A p \in Workers :
            /\ proc[p].pc = "done" => ReturnedString(p)
            /\ proc[p].pc \notin {"idle", "done"} => CanStep(p))
    /\ [][Advances]_vars

C23_Witness ==
    \E p \in Workers :
        /\ proc[p].pc = "done" /\ proc[p].op = "add_item"
        /\ proc[p].exc.type \notin {"", "ValidationError", "DatabaseError", "DatabaseConnectionError"}
        /\ proc[p].result = Some(UnexpectedErrorMsg("add_item"))

\* the call of worker p ended by a store or connection failure raised while
\* its list was loaded, created or written (add_item and get_shopping_list
\* have their user by then)
ListStepFailed(p) ==
    /\ proc[p].pc = "done"
    /\ proc[p].cause \in GatewayFailures
    /\ proc[p].op \in {"add_item", "get_shopping_list"} => proc[p].user # None

\* C24: in every tool a validation failure returns "Error: <message>", a
\* missing list or item returns the tool's "Could not find ..." or "No shopping
\* list found." string, and a store or connection failure raised while the list
\* is loaded or written returns the tool's "Database error: ..." string, which
\* is not its "Error: Unable to ..." string; add_item included.
C24_ErrorStrings ==
    \A p \in Workers :
        proc[p].pc = "done" =>
            /\ proc[p].exc.type = "ValidationError" =>
                  proc[p].result = Some(ValidationMsg(proc[p].exc))
            /\ (proc[p].exc.type = "ItemNotFoundError" /\ proc[p].op \in NamedOps) =>
                  proc[p].result = Some(CouldNotFindMsg(proc[p].item_name))
            /\ (proc[p].exc.type = "ItemNotFoundError" /\ proc[p].op \in ClearOps) =>
                  proc[p].result = Some(NoListMsg)
            /\ ListStepFailed(p) =>
                  /\ proc[p].result = Some(DatabaseErrorMsg(proc[p].op))
                  /\ proc[p].result # Some(UnexpectedErrorMsg(proc[p].op))

\* the tools that call get_or_create_user
UserTools == {"add_item", "get_shopping_list"}

\* the call of worker p has ended, was made for a user with no user document
\* when it began, and no store or connection failure ended it
EndedForNewUser(p) ==
    /\ proc[p].pc = "done"
    /\ UserDocsOf(proc[p].usersBefore, proc[p].user_id) = {}
    /\ proc[p].cause \notin GatewayFailures

\* every user document stays where it is and as it is
UsersKept ==
    /\ Len(users') >= Len(users)
    /\ \A i \in 1..Len(users) : users'[i] = users[i]

\* the users collection changes only in the create_user step of a call of
\* add_item or get_shopping_list
UsersGrowByUserTools ==
    users' # users =>
        \E p \in Workers :
            /\ proc[p].pc = "create_user" /\ proc[p].op \in UserTools
            /\ proc'[p].pc # "create_user"

\* C25 as stated: a call of any of the eight tools for a user with no user
\* document, not ended by a store failure, leaves a user document for that
\* user.
C25_AnyToolCreatesUser ==
    \A p \in Workers :
        EndedForNewUser(p) => UserDocsOf(users, proc[p].user_id) # {}

\* C25 (amended): a call of add_item or get_shopping_list for a user with no
\* user document leaves a user document for that user, unless the store or
\* connection failed in the lookup or insert of the user; no step of a call of
\* any other tool changes the users collection; and no step of any call
\* deletes or changes a stored user document.
C25_UserCreatedByAddOrGet ==
    /\ [](\A p \in Workers :
            /\ (proc[p].pc = "done" /\ proc[p].op \in UserTools /\ proc[p].user # None) =>
                  UserDocsOf(users, proc[p].user_id) # {}
            /\ (proc[p].pc = "done" /\ proc[p].op \in UserTools /\ proc[p].user = None) =>
                  proc[p].cause \in GatewayFailures)
    /\ [][UsersKept /\ UsersGrowByUserTools]_vars

C25_Witness ==
    \E p \in Workers :
        /\ EndedForNewUser(p) /\ proc[p].op = "add_item"
        /\ proc[p].exc.type = "ValidationError"
        /\ UserDocsOf(users, proc[p].user_id) # {}
        /\ Len(users) = 2

\* how many of the first k items of list l have checked = b
Rank(l, k, b) == Cardinality({j \in 1..k : l.items[j].checked = b})

\* line ln of the report shows item it
Shows(ln, it) == ln.name = it.name /\ ln.qty_unit = QtyUnit(it.quantity, it.unit)

\* C26: get_shopping_list returns "Your shopping list is empty." exactly when
\* the list has no items; otherwise the k-th unchecked item of the list is the
\* k-th line of "Items to Buy", the k-th checked item is the k-th line of
\* "Purchased", the two sections together have as many lines as the list has
\* items, and the summary gives the two section sizes; the item the previous
\* add_item call of the same user added is the last line of "Items to Buy".
C26_FormatShoppingList ==
    \A p \in Workers :
        Returned(p, "get_shopping_list") =>
            LET l == proc[p].loaded[1]
                r == proc[p].result[1]
            IN  /\ (r = EmptyListMsg) <=> (l.items = <<>>)
                /\ l.items # <<>> =>
                      /\ Len(r.to_buy) + Len(r.purchased) = Len(l.items)
                      /\ r.args = <<NumStr(Len(r.to_buy)), NumStr(Len(r.purchased))>>
                      /\ \A k \in 1..Len(l.items) :
                            IF l.items[k].checked
                            THEN /\ Rank(l, k, TRUE) <= Len(r.purchased)
                                 /\ Shows(r.purchased[Rank(l, k, TRUE)], l.items[k])
                            ELSE /\ Rank(l, k, FALSE) <= Len(r.to_buy)
                                 /\ Shows(r.to_buy[Rank(l, k, FALSE)], l.items[k])
                /\ (proc[p].prevAdded # None /\ proc[p].prevAdded[1].user_id = proc[p].user_id) =>
                      /\ r.to_buy # <<>>
                      /\ r.to_buy[Len(r.to_buy)] = ToBuyLine(proc[p].prevAdded[1].item)

C26_Witness ==
    \E p \in Workers :
        /\ Returned(p, "get_shopping_list")
        /\ proc[p].prevAdded # None
        /\ proc[p].prevAdded[1].user_id = proc[p].user_id
        /\ Len(proc[p].result[1].to_buy) >= 2
        /\ proc[p].result[1].purchased # <<>>

\* the user of worker p's call had a list document when the call began
HadList(p) == DocsOf(proc[p].before, proc[p].user_id) # {}

LegacyItemsBefore ==
    LET c == proc["w1"] IN c.before[FindList(c.before, c.user_id)].items

\* C28: remove_item of src/shopping_list.py, called for a user whose list is
\* stored, returns "Could not find '<name>' in your shopping list." when no
\* item of that list matches the name, and returns "Removed '<name>' from your
\* shopping list." only when the call removed at least one item.
C28_LegacyRemoveItem ==
    LET c == proc["w1"] IN
    (c.pc = "legacy" /\ c.op = "remove_item" /\ FindList(c.before, c.user_id) # 0) =>
        /\ (\A k \in 1..Len(LegacyItemsBefore) :
                ~RegexMatches(LegacyItemsBefore[k].name, c.item_name)) =>
              c.result = Some(CouldNotFindMsg(c.item_name))
        /\ c.result = Some(ToolSuccess("remove_item", c.item_name, Float(0), <<>>, 0)) =>
              Len(lists[FindList(lists, c.user_id)].items) < Len(LegacyItemsBefore)

\* C29: whatever calls were made and however they interleaved, every item of
\* every stored list has checked_at set exactly when checked is true.
C29_CheckedAtIffChecked ==
    \A i \in 1..Len(lists) :
        \A k \in 1..Len(lists[i].items) :
            (lists[i].items[k].checked_at # None) <=> lists[i].items[k].checked

C29_Witness ==
    \E p, q \in Workers :
        /\ Returned(p, "check_item") /\ Returned(q, "uncheck_item")
        /\ proc[p].user_id = proc[q].user_id
        /\ \E k \in 1..Len(StoredItems(proc[p].user_id)) :
              LET it == StoredItems(proc[p].user_id)[k] IN
              /\ it.name = Eggs /\ it.checked /\ it.checked_at # None
        /\ \E k \in 1..Len(StoredItems(proc[p].user_id)) :
              LET it == StoredItems(proc[p].user_id)[k] IN
              /\ it.name = Milk /\ ~it.checked /\ it.checked_at = None

\* C30: whatever calls were made, however they interleaved and whichever
\* store operations failed, every stored list document has the user_id of a
\* stored user document.
C30_ListsHaveUsers ==
    \A i \in 1..Len(lists) : UserDocsOf(users, lists[i].user_id) # {}

C30_Witness ==
    \E p, q \in Workers :
        /\ Returned(p, "add_item")
        /\ UserDocsOf(proc[p].usersBefore, proc[p].user_id) = {}
        /\ DocsOf(lists, proc[p].user_id) # {}
        /\ UserDocsOf(users, proc[p].user_id) # {}
        /\ proc[q].pc = "done" /\ proc[q].cause \in GatewayFailures
        /\ proc[q].user_id = proc[p].user_id

====
